---- MODULE Spec2Model ----
(***************************************************************************)
(* Model of the transcript segmentation and timestamp-alignment engine of  *)
(* youtube-quote-extractor (transcript_utils.py, main.py, and the          *)
(* collaborator interface of quote_extraction.py), of the audio splitter   *)
(* (audio_utils.py) and of the Start and Stop handlers of the desktop GUI  *)
(* (gui_app.py).                                                           *)
(*                                                                         *)
(* Python str values are sequences of one-character strings, so that       *)
(* splitting, stripping, int() and the regular expressions of the source   *)
(* are computed character by character.  An Optional value is a sequence   *)
(* of length 0 (None) or 1.                                                *)
(***************************************************************************)
EXTENDS Integers, Sequences, FiniteSets, TLC

VARIABLES
    pc,                        \* position of the driver: which call has run
    timestamp,                 \* parse_timestamp_to_seconds: its argument
    seconds,                   \* parse_timestamp_to_seconds: its outcome
    offset_sec,                \* adjust_transcript_timestamps: offset_sec
    total_sec,                 \* repl: its local total_sec
    marker                     \* repl: the text that replaces a marker

VARIABLES
    timestamps_to_process,     \* validate_timestamps_format: its argument
    valid                      \* validate_timestamps_format: its return value

VARIABLES
    text_block,                \* parse_input: its argument
    youtube_url,               \* parse_input: the returned Optional url
    timestamps_data            \* parse_input: the returned records

VARIABLES
    raw_transcript,            \* get_transcript_segment: raw_transcript
    current_timestamp_index,   \* get_transcript_segment: the anchor index
    all_timestamps,            \* get_transcript_segment: all_timestamps
    manual_context_limit_sec,  \* get_transcript_segment: the ceiling after
    context_before_sec,        \* get_transcript_segment: the margin before
    start_time,                \* get_transcript_segment: its local start_time
    end_time,                  \* get_transcript_segment: its local end_time
    segment                    \* get_transcript_segment: its outcome

VARIABLES
    full_transcript,           \* process_timestamps: full_transcript
    context_after,             \* process_timestamps: context_after
    context_before,            \* process_timestamps: context_before
    last_ts_seconds,           \* process_timestamps: its local last_ts_seconds
    ts_index,                  \* process_timestamps: the loop index i
    extracted_quotes,          \* process_timestamps: extracted_quotes
    quote_requests,            \* the calls of extract_quote_with_gemini made
    iteration_log              \* what each loop iteration logged

VARIABLES
    chunks,                    \* transcribe_audio_with_chunking: chunks
    chunk_idx,                 \* transcribe_audio_with_chunking: loop index
    chunk_transcripts,         \* what transcribe_audio returned, per chunk
    attempt,                   \* the attempt number of the @retry wrapper
    transcripts,               \* transcribe_audio_with_chunking: transcripts
    stitched,                  \* transcribe_audio_with_chunking: stitched
    prev_lines,                \* transcribe_audio_with_chunking: prev_lines
    chunked_result,            \* transcribe_audio_with_chunking: its outcome
    request_attempt,           \* transcribe_audio: the attempt of its @retry
    requests_sent,             \* per chunk, the requests sent to the API
    chunk_files,               \* the chunks whose _chunkN.txt file exists
    transcript_file            \* the file transcript_filename, an Optional

codecVars == <<timestamp, seconds, offset_sec, total_sec, marker>>

processVars ==
    <<full_transcript, context_after, context_before, last_ts_seconds,
      ts_index, extracted_quotes, quote_requests, iteration_log>>

VARIABLES
    duration_ms,               \* split_audio_chunks: len(audio)
    chunk_length_ms,           \* split_audio_chunks: chunk_length_ms
    overlap_ms,                \* split_audio_chunks: overlap_ms
    start_ms,                  \* split_audio_chunks: start_ms
    end_ms,                    \* split_audio_chunks: end_ms
    chunk_ranges               \* the slices audio[start_ms:end_ms] exported

splitVars ==
    <<duration_ms, chunk_length_ms, overlap_ms, start_ms, end_ms,
      chunk_ranges>>

VARIABLES
    is_processing,             \* YouTubeExtractorGUI.is_processing
    process_btn,               \* state of the Start Processing button
    stop_btn,                  \* state of the Stop button
    progress_bar,              \* whether the progress bar runs
    progress_var,              \* the status line
    url_entry,                 \* content of the URL field
    processing_mode,           \* "transcript" or "both"
    timestamps_text,           \* content of the timestamps field
    message_shown,             \* the last error box shown
    threads                    \* the worker threads started, in order

guiVars ==
    <<is_processing, process_btn, stop_btn, progress_bar, progress_var,
      url_entry, processing_mode, timestamps_text, message_shown, threads>>

stitchVars ==
    <<chunks, chunk_idx, chunk_transcripts, attempt, transcripts, stitched,
      prev_lines, chunked_result, request_attempt, requests_sent,
      chunk_files,
      transcript_file>>

segmentVars ==
    <<raw_transcript, current_timestamp_index, all_timestamps,
      manual_context_limit_sec, context_before_sec, start_time, end_time,
      segment>>

validateVars == <<timestamps_to_process, valid>>

parseVars == <<text_block, youtube_url, timestamps_data>>

vars ==
    <<pc, codecVars, validateVars, parseVars, segmentVars, processVars,
      stitchVars, splitVars, guiVars>>

(***************************************************************************)
(* Bounds of the model.                                                    *)
(***************************************************************************)
MaxTextLen == 7                \* longest generated timestamp text
MaxOffsetSec == 3700           \* largest chunk offset handed to repl
MaxRecords == 3                \* longest list of example records validated
MaxLines == 3                  \* most lines of a generated input block
MaxAnchors == 2                \* most records handed to get_transcript_segment
MaxTranscriptLines == 2        \* most lines of a generated transcript
MaxChunks == 2                 \* most chunks of a split audio file
MaxDurationSteps == 20         \* longest audio split, in steps of 7.5 s
MaxSplitChunks == 8            \* most iterations of the splitting loop
MaxThreads == 3                \* most worker threads started by the GUI

(***************************************************************************)
(* Characters and Python str primitives.                                   *)
(***************************************************************************)
DigitChars == <<"0", "1", "2", "3", "4", "5", "6", "7", "8", "9">>

IsDigit(c) == c \in {"0", "1", "2", "3", "4", "5", "6", "7", "8", "9"}

DigitVal(c) == (CHOOSE d \in 1..10 : DigitChars[d] = c) - 1

\* str.isspace for the characters of the model
IsSpace(c) == c \in {" ", "\n", "\t", "\r"}

SetMin(S) == CHOOSE x \in S : \A y \in S : x <= y

SetMax(S) == CHOOSE x \in S : \A y \in S : x >= y

\* the first position of s from p on that holds no whitespace
RECURSIVE SkipSpaces(_, _)
SkipSpaces(s, p) ==
    IF p > Len(s) \/ ~IsSpace(s[p]) THEN p ELSE SkipSpaces(s, p + 1)

\* the last position of s up to p that holds no whitespace
RECURSIVE SkipSpacesBack(_, _)
SkipSpacesBack(s, p) ==
    IF p < 1 \/ ~IsSpace(s[p]) THEN p ELSE SkipSpacesBack(s, p - 1)

\* str.strip()
Strip(s) == SubSeq(s, SkipSpaces(s, 1), SkipSpacesBack(s, Len(s)))

\* str.split(sep) for a one-character separator: always at least one part
RECURSIVE SplitFrom(_, _, _, _)
SplitFrom(s, sep, from, p) ==
    IF p > Len(s) THEN <<SubSeq(s, from, Len(s))>>
    ELSE IF s[p] = sep
    THEN <<SubSeq(s, from, p - 1)>> \o SplitFrom(s, sep, p + 1, p + 1)
    ELSE SplitFrom(s, sep, from, p + 1)

Split(s, sep) == SplitFrom(s, sep, 1, 1)

\* sep.join(parts)
RECURSIVE Join(_, _)
Join(parts, sep) ==
    IF parts = <<>> THEN <<>>
    ELSE IF Len(parts) = 1 THEN parts[1]
    ELSE parts[1] \o sep \o Join(Tail(parts), sep)

RECURSIVE DecimalValue(_)
DecimalValue(ds) ==
    IF ds = <<>> THEN 0
    ELSE DecimalValue(SubSeq(ds, 1, Len(ds) - 1)) * 10 + DigitVal(ds[Len(ds)])

\* the text of int(s) without its surrounding whitespace and its sign
IntBody(s) ==
    LET t == Strip(s)
    IN  IF t # <<>> /\ t[1] \in {"+", "-"} THEN Tail(t) ELSE t

\* int(s) succeeds (the model has no "_" character)
IsIntLiteral(s) ==
    /\ IntBody(s) # <<>>
    /\ \A i \in 1..Len(IntBody(s)) : IsDigit(IntBody(s)[i])

\* int(s) where it succeeds
IntOf(s) ==
    LET t == Strip(s)
    IN  IF t[1] = "-" THEN 0 - DecimalValue(IntBody(s))
        ELSE DecimalValue(IntBody(s))

(***************************************************************************)
(* Outcome of a call: a returned value or a raised exception.              *)
(***************************************************************************)
Returned(v) == [exc |-> "none", value |-> v]

Raised(e) == [exc |-> e, value |-> 0]

NotCalled == [exc |-> "not called", value |-> 0]

(***************************************************************************)
(* parse_timestamp_to_seconds                                              *)
(***************************************************************************)
\* mutant: the hour and minute weights of the three-part arm are swapped
ParseTimestampSwappedWeights(ts) ==
    LET parts == Split(ts, ":")
    IN  IF \E i \in 1..Len(parts) : ~IsIntLiteral(parts[i])
        THEN Raised("ValueError")
        ELSE IF Len(parts) = 3
        THEN Returned(IntOf(parts[1]) * 60 + IntOf(parts[2]) * 3600
                      + IntOf(parts[3]))
        ELSE IF Len(parts) = 2
        THEN Returned(IntOf(parts[1]) * 60 + IntOf(parts[2]))
        ELSE Returned(0)

\* mutant: a single number is read as a count of seconds
ParseTimestampBareSeconds(ts) ==
    LET parts == Split(ts, ":")
    IN  IF \E i \in 1..Len(parts) : ~IsIntLiteral(parts[i])
        THEN Raised("ValueError")
        ELSE IF Len(parts) = 3
        THEN Returned(IntOf(parts[1]) * 3600 + IntOf(parts[2]) * 60
                      + IntOf(parts[3]))
        ELSE IF Len(parts) = 2
        THEN Returned(IntOf(parts[1]) * 60 + IntOf(parts[2]))
        ELSE IF Len(parts) = 1
        THEN Returned(IntOf(parts[1]))
        ELSE Returned(0)

ParseTimestampToSeconds(ts) ==
    LET parts == Split(ts, ":")
    IN  IF \E i \in 1..Len(parts) : ~IsIntLiteral(parts[i])
        THEN Raised("ValueError")
        ELSE IF Len(parts) = 3
        THEN Returned(IntOf(parts[1]) * 3600 + IntOf(parts[2]) * 60
                      + IntOf(parts[3]))
        ELSE IF Len(parts) = 2
        THEN Returned(IntOf(parts[1]) * 60 + IntOf(parts[2]))
        ELSE Returned(0)

(***************************************************************************)
(* adjust_transcript_timestamps.repl: the marker formatter                 *)
(***************************************************************************)
RECURSIVE Decimal(_)
Decimal(x) ==
    IF x < 10 THEN <<DigitChars[x + 1]>>
    ELSE Decimal(x \div 10) \o <<DigitChars[(x % 10) + 1]>>

\* mutant: the field is written without padding
FormatUnpadded(x) == Decimal(x)

\* format spec 02d of a non-negative integer
Format02d(x) == IF x < 10 THEN <<"0">> \o Decimal(x) ELSE Decimal(x)

\* mutant: the minutes are not reduced modulo the hour
FormatMarkerWholeMinutes(total) ==
    LET h == total \div 3600
        m == total \div 60
        s == total % 60
    IN  IF h > 0
        THEN <<"[">> \o Format02d(h) \o <<":">> \o Format02d(m) \o <<":">>
             \o Format02d(s) \o <<"]">>
        ELSE <<"[">> \o Format02d(m) \o <<":">> \o Format02d(s) \o <<"]">>

\* lines 156-162: the bracketed marker of a second count
FormatMarker(total) ==
    LET h == total \div 3600
        m == (total % 3600) \div 60
        s == total % 60
    IN  IF h > 0
        THEN <<"[">> \o Format02d(h) \o <<":">> \o Format02d(m) \o <<":">>
             \o Format02d(s) \o <<"]">>
        ELSE <<"[">> \o Format02d(m) \o <<":">> \o Format02d(s) \o <<"]">>

\* lines 150-155: the second count of a matched marker text plus the offset
ReplTotalSec(ts, off) ==
    LET parts == Split(ts, ":")
    IN  IF Len(parts) = 3
        THEN IntOf(parts[1]) * 3600 + IntOf(parts[2]) * 60 + IntOf(parts[3])
             + off
        ELSE IntOf(parts[1]) * 60 + IntOf(parts[2]) + off

Repl(ts, off) == FormatMarker(ReplTotalSec(ts, off))

(***************************************************************************)
(* Regular expressions of the source, matched at a given position.         *)
(***************************************************************************)
At(s, i) == IF i \in 1..Len(s) THEN s[i] ELSE ""

\* \d{1,2}:\d{2} at position p: the position after the match, 0 for no match
TsCoreEnd(s, p) ==
    IF /\ IsDigit(At(s, p)) /\ IsDigit(At(s, p + 1)) /\ At(s, p + 2) = ":"
       /\ IsDigit(At(s, p + 3)) /\ IsDigit(At(s, p + 4))
    THEN p + 5
    ELSE IF /\ IsDigit(At(s, p)) /\ At(s, p + 1) = ":"
            /\ IsDigit(At(s, p + 2)) /\ IsDigit(At(s, p + 3))
    THEN p + 4
    ELSE 0

\* (?::\d{2})? at position e (greedy): the position after it
OptSecondsEnd(s, e) ==
    IF At(s, e) = ":" /\ IsDigit(At(s, e + 1)) /\ IsDigit(At(s, e + 2))
    THEN e + 3 ELSE e

\* \[(\d{1,2}:\d{2}(?::\d{2})?)\] at position p: group 1 as an Optional
MarkerGroupAt(s, p) ==
    LET e == TsCoreEnd(s, p + 1)
    IN  IF At(s, p) = "[" /\ e # 0 /\ At(s, OptSecondsEnd(s, e)) = "]"
        THEN <<SubSeq(s, p + 1, OptSecondsEnd(s, e) - 1)>>
        ELSE <<>>

\* re.search(r'^\[(\d{1,2}:\d{2}(?::\d{2})?)\]', line): group 1 as an Optional
LineMarker(line) == MarkerGroupAt(line, 1)

(***************************************************************************)
(* Inputs of the timestamp codec.                                          *)
(***************************************************************************)
TimestampAlphabet == {"0", "1", ":", "\n"}

StringsUpTo(alphabet, n) == UNION {[1..k -> alphabet] : k \in 0..n}

\* the texts of the documented examples
ExampleTimestamps ==
    { <<"1", ":", "3", "0">>, <<"0", "1", ":", "3", "0">>,
      <<"0", "1", ":", "0", "2", ":", "0", "3">>, <<"9", "0">>,
      <<"1", ":", "2", ":", "3", ":", "4">>, <<"a", "b", "c">> }

TimestampInputs ==
    StringsUpTo(TimestampAlphabet, MaxTextLen) \cup ExampleTimestamps

\* chunk-local marker texts that repl receives from re.sub
ChunkMarkerTexts ==
    { <<"0", "0", ":", "0", "0">>, <<"0", "5", ":", "0", "0">>,
      <<"1", "0", ":", "0", "0", ":", "0", "0">>,
      <<"9", "9", ":", "0", "0", ":", "0", "0">> }

(***************************************************************************)
(* The timestamp codec as a state machine: one call per behaviour.         *)
(***************************************************************************)
Init ==
    /\ pc = "start"
    /\ timestamp = <<>>
    /\ seconds = NotCalled
    /\ offset_sec = 0
    /\ total_sec = 0
    /\ marker = <<>>
    /\ timestamps_to_process = <<>>
    /\ valid = FALSE
    /\ text_block = <<>>
    /\ youtube_url = <<>>
    /\ timestamps_data = <<>>
    /\ raw_transcript = <<>>
    /\ current_timestamp_index = 0
    /\ all_timestamps = <<>>
    /\ manual_context_limit_sec = 0
    /\ context_before_sec = 0
    /\ start_time = 0
    /\ end_time = 0
    /\ segment = NotCalled
    /\ full_transcript = <<>>
    /\ context_after = 0
    /\ context_before = 0
    /\ last_ts_seconds = 0
    /\ ts_index = 0
    /\ extracted_quotes = <<>>
    /\ quote_requests = <<>>
    /\ iteration_log = <<>>
    /\ chunks = <<>>
    /\ chunk_idx = 0
    /\ chunk_transcripts = <<>>
    /\ attempt = 0
    /\ transcripts = <<>>
    /\ stitched = <<>>
    /\ prev_lines = {}
    /\ chunked_result = NotCalled
    /\ request_attempt = 0
    /\ requests_sent = <<>>
    /\ chunk_files = {}
    /\ transcript_file = <<>>
    /\ duration_ms = 0
    /\ chunk_length_ms = 0
    /\ overlap_ms = 0
    /\ start_ms = 0
    /\ end_ms = 0
    /\ chunk_ranges = <<>>
    /\ is_processing = FALSE
    /\ process_btn = "normal"
    /\ stop_btn = "disabled"
    /\ progress_bar = FALSE
    /\ progress_var = <<>>
    /\ url_entry = <<>>
    /\ processing_mode = "both"
    /\ timestamps_text = <<>>
    /\ message_shown = "none"
    /\ threads = <<>>

\* parse_timestamp_to_seconds(t)
CallParseTimestamp ==
    /\ UNCHANGED <<splitVars, guiVars>>
    /\ pc = "start"
    /\ \E t \in TimestampInputs :
          /\ timestamp' = t
          /\ seconds' = ParseTimestampToSeconds(t)
    /\ pc' = "parsed"
    /\ UNCHANGED <<offset_sec, total_sec, marker, validateVars, parseVars,
                   segmentVars, processVars, stitchVars>>

\* repl(match) inside adjust_transcript_timestamps(transcript, off)
CallRepl ==
    /\ UNCHANGED <<splitVars, guiVars>>
    /\ pc = "start"
    /\ \E ts \in ChunkMarkerTexts, off \in 0..MaxOffsetSec :
          /\ offset_sec' = off
          /\ total_sec' = ReplTotalSec(ts, off)
          /\ marker' = Repl(ts, off)
    /\ pc' = "rendered"
    /\ UNCHANGED <<timestamp, seconds, validateVars, parseVars, segmentVars,
                   processVars, stitchVars>>

\* a reader of the transcript (get_transcript_segment,
\* find_transcript_max_timestamp) matches the marker and parses its text
ReadMarker ==
    /\ UNCHANGED <<splitVars, guiVars>>
    /\ pc = "rendered"
    /\ IF LineMarker(marker) = <<>>
       THEN /\ pc' = "unmatched"
            /\ UNCHANGED <<timestamp, seconds>>
       ELSE /\ pc' = "reparsed"
            /\ timestamp' = LineMarker(marker)[1]
            /\ seconds' = ParseTimestampToSeconds(LineMarker(marker)[1])
    /\ UNCHANGED <<offset_sec, total_sec, marker, validateVars, parseVars,
                   segmentVars, processVars, stitchVars>>

NextCodec == CallParseTimestamp \/ CallRepl \/ ReadMarker

SpecCodec == Init /\ [][NextCodec]_vars

(***************************************************************************)
(* TimestampInfo and validate_timestamps_format (main.py).                 *)
(***************************************************************************)
TimestampInfo(ts, desc) == [timestamp |-> ts, description |-> desc]

\* $ without re.MULTILINE: the end of the text, or just before a newline
\* that ends the text
AtDollar(s, p) == p = Len(s) + 1 \/ (p = Len(s) /\ s[p] = "\n")

\* re.match(r'^(\d{1,2}:\d{2})(?::\d{2})?$', ts) is not None
TimestampFormatMatch(ts) ==
    LET e == TsCoreEnd(ts, 1)
    IN  /\ e # 0
        /\ \/ AtDollar(ts, OptSecondsEnd(ts, e))
           \/ AtDollar(ts, e)

\* the loop of lines 42-46
RECURSIVE ValidateTimestampsFormat(_)
ValidateTimestampsFormat(infos) ==
    IF infos = <<>> THEN TRUE
    ELSE IF ~TimestampFormatMatch(Head(infos).timestamp) THEN FALSE
    ELSE ValidateTimestampsFormat(Tail(infos))

SeqsUpTo(S, n) == UNION {[1..k -> S] : k \in 0..n}

\* every generated text alone, and every short list of the example texts
ValidateInputs ==
    {<<TimestampInfo(t, <<>>)>> : t \in TimestampInputs}
    \cup SeqsUpTo({TimestampInfo(t, <<>>) : t \in ExampleTimestamps},
                  MaxRecords)

\* validate_timestamps_format(infos)
CallValidateTimestampsFormat ==
    /\ UNCHANGED <<splitVars, guiVars>>
    /\ pc = "start"
    /\ \E infos \in ValidateInputs :
          /\ timestamps_to_process' = infos
          /\ valid' = ValidateTimestampsFormat(infos)
    /\ pc' = "validated"
    /\ UNCHANGED <<codecVars, parseVars, segmentVars, processVars, stitchVars>>

\* validate_input(youtube_url, timestamps_to_process), main.py lines 49-65;
\* url is an Optional
ValidateInput(url, infos) ==
    IF url = <<>> THEN FALSE
    ELSE IF infos = <<>> THEN FALSE
    ELSE ValidateTimestampsFormat(infos)

\* "https://x/y"
ExampleUrl ==
    <<"h", "t", "t", "p", "s", ":", "/", "/", "x", "/", "y">>

\* the batches handed to validate_input: short lists of the example texts
ValidateBatches ==
    SeqsUpTo({TimestampInfo(t, <<>>) : t \in ExampleTimestamps}, MaxRecords)

\* validate_input(url, infos)
CallValidateInput ==
    /\ UNCHANGED <<splitVars, guiVars>>
    /\ pc = "start"
    /\ \E url \in {<<>>, <<ExampleUrl>>}, infos \in ValidateBatches :
          /\ youtube_url' = url
          /\ timestamps_to_process' = infos
          /\ valid' = ValidateInput(url, infos)
    /\ pc' = "input validated"
    /\ UNCHANGED <<codecVars, text_block, timestamps_data, segmentVars,
                   processVars, stitchVars>>

NextValidate == CallValidateTimestampsFormat \/ CallValidateInput

SpecValidate == Init /\ [][NextValidate]_vars

(***************************************************************************)
(* parse_input (transcript_utils.py).                                      *)
(***************************************************************************)
\* the literal lit stands at position p of s
LiteralAt(s, p, lit) == \A i \in 1..Len(lit) : At(s, p + i - 1) = lit[i]

\* the first position at or after p that holds whitespace ([^\s]* from p)
RECURSIVE SkipNonSpaces(_, _)
SkipNonSpaces(s, p) ==
    IF p > Len(s) \/ IsSpace(s[p]) THEN p ELSE SkipNonSpaces(s, p + 1)

\* https?:// at position p: the position after it, 0 for no match
UrlSchemeEnd(s, p) ==
    LET q == IF At(s, p + 4) = "s" THEN p + 5 ELSE p + 4
    IN  IF LiteralAt(s, p, <<"h", "t", "t", "p">>)
           /\ LiteralAt(s, q, <<":", "/", "/">>)
        THEN q + 3 ELSE 0

\* https?://[^\s]+ matches at position p
UrlMatchAt(s, p) ==
    LET e == UrlSchemeEnd(s, p)
    IN  e # 0 /\ e <= Len(s) /\ ~IsSpace(s[e])

\* url_pattern.search(line): group 0 of the leftmost match as an Optional
RECURSIVE UrlSearchFrom(_, _)
UrlSearchFrom(line, p) ==
    IF p > Len(line) THEN <<>>
    ELSE IF UrlMatchAt(line, p)
    THEN <<SubSeq(line, p, SkipNonSpaces(line, UrlSchemeEnd(line, p)) - 1)>>
    ELSE UrlSearchFrom(line, p + 1)

UrlSearch(line) == UrlSearchFrom(line, 1)

\* mutant: the pattern has no \s* before the dash
DescriptionGroupTightDash(line, e) ==
    IF At(line, e) = "-"
    THEN <<SubSeq(line, SkipSpaces(line, e + 1), Len(line))>>
    ELSE <<>>

\* group 2 of timestamp_pattern, (?:\s*-\s*(.*))? after group 1 ended before
\* position e, as an Optional
DescriptionGroup(line, e) ==
    LET dash == SkipSpaces(line, e)
    IN  IF At(line, dash) = "-"
        THEN <<SubSeq(line, SkipSpaces(line, dash + 1), Len(line))>>
        ELSE <<>>

\* mutant: the record's timestamp is the whole match, description included
TimestampRecordWholeMatch(line) ==
    LET e == TsCoreEnd(line, 1)
    IN  IF e = 0 THEN <<>>
        ELSE <<TimestampInfo(
                 Strip(line),
                 IF DescriptionGroup(line, e) # <<>>
                 THEN Strip(DescriptionGroup(line, e)[1]) ELSE <<>>)>>

\* lines 48-59: the record of a line that timestamp_pattern matches, as an
\* Optional
TimestampRecord(line) ==
    LET e == TsCoreEnd(line, 1)
    IN  IF e = 0 THEN <<>>
        ELSE <<TimestampInfo(
                 Strip(SubSeq(line, 1, e - 1)),
                 IF DescriptionGroup(line, e) # <<>>
                 THEN Strip(DescriptionGroup(line, e)[1]) ELSE <<>>)>>

\* mutant: a new record is put in front of the list
ParseLinePrepends(acc, raw) ==
    LET line == Strip(raw)
    IN  IF line = <<>> THEN acc
        ELSE IF UrlSearch(line) # <<>> /\ acc[1] = <<>>
        THEN <<UrlSearch(line), acc[2]>>
        ELSE <<acc[1], TimestampRecord(line) \o acc[2]>>

\* mutant: every line that holds a URL becomes the URL
ParseLineLastUrl(acc, raw) ==
    LET line == Strip(raw)
    IN  IF line = <<>> THEN acc
        ELSE IF UrlSearch(line) # <<>>
        THEN <<UrlSearch(line), acc[2]>>
        ELSE <<acc[1], acc[2] \o TimestampRecord(line)>>

\* one iteration of the loop of lines 40-59 on the pair <<url, records>>
ParseLine(acc, raw) ==
    LET line == Strip(raw)
        url_match == UrlSearch(line)
    IN  IF line = <<>> THEN acc
        ELSE IF url_match # <<>> /\ acc[1] = <<>>
        THEN <<url_match, acc[2]>>
        ELSE <<acc[1], acc[2] \o TimestampRecord(line)>>

RECURSIVE ParseLines(_, _)
ParseLines(acc, lines) ==
    IF lines = <<>> THEN acc
    ELSE ParseLines(ParseLine(acc, Head(lines)), Tail(lines))

\* parse_input(block): the pair <<youtube_url, timestamps_data>>
ParseInput(block) ==
    ParseLines(<<<<>>, <<>>>>, Split(Strip(block), "\n"))

\* the lines a user types: a leading text and what follows it
LineHeads ==
    { <<>>, <<"1", ":", "3", "0">>, <<"1", ":", "0", "2", ":", "0", "3">> }

LineTails ==
    { <<>>, <<" ", "-", " ", "h", "i">>,
      <<" ", "-", " ", "h", "t", "t", "p", ":", "/", "/", "z">>,
      <<"h", "t", "t", "p", "s", ":", "/", "/", "y">> }

InputLines == {h \o t : h \in LineHeads, t \in LineTails}

\* "https://x/y\n1:30 - hello\nnotaline\n2:00"
ExampleBlock ==
    <<"h", "t", "t", "p", "s", ":", "/", "/", "x", "/", "y", "\n",
      "1", ":", "3", "0", " ", "-", " ", "h", "e", "l", "l", "o", "\n",
      "n", "o", "t", "a", "l", "i", "n", "e", "\n",
      "2", ":", "0", "0">>

\* other spellings of a timestamp line
ExampleLines ==
    { <<" ", "2", ":", "0", "0", "-", "h", "i", " ">>,
      <<"1", "2", ":", "0", "5", " ", "x", " ", "-", " ", "y">>,
      <<"1", ":", "3", "0", " ", "-">>,
      <<"1", "2", "3", ":", "4", "5">>,
      <<"a", "t", " ", "1", ":", "3", "0">> }

InputBlocks ==
    {Join(ls, <<"\n">>) : ls \in SeqsUpTo(InputLines, MaxLines)}
    \cup {ExampleBlock} \cup ExampleLines

\* parse_input(block)
CallParseInput ==
    /\ UNCHANGED <<splitVars, guiVars>>
    /\ pc = "start"
    /\ \E block \in InputBlocks :
          \E parsed \in {ParseInput(block)} :
              /\ text_block' = block
              /\ youtube_url' = parsed[1]
              /\ timestamps_data' = parsed[2]
    /\ pc' = "input parsed"
    /\ UNCHANGED <<codecVars, validateVars, segmentVars, processVars,
                   stitchVars>>

NextParseInput == CallParseInput

SpecParseInput == Init /\ [][NextParseInput]_vars

(***************************************************************************)
(* get_transcript_segment (transcript_utils.py).                           *)
(***************************************************************************)
Min2(a, b) == IF a <= b THEN a ELSE b

Max2(a, b) == IF a >= b THEN a ELSE b

\* mutant: the next anchor is not looked at
ContextAfterSecWholeLimit(infos, idx, limit) == limit

\* lines 117-125: context_after_sec; idx counts from 0 as in the source, and
\* the timestamps of the anchor and of its successor parse
ContextAfterSec(infos, idx, limit) ==
    IF idx = Len(infos) - 1 THEN limit
    ELSE Min2(ParseTimestampToSeconds(infos[idx + 2].timestamp).value
              - ParseTimestampToSeconds(infos[idx + 1].timestamp).value,
              limit)

\* line 130
StartTime(target_seconds, before) == Max2(0, target_seconds - before)

\* line 131
EndTime(target_seconds, after) == target_seconds + after

\* mutant: the window is open at its end
LineInWindowHalfOpen(line, from, to) ==
    /\ LineMarker(line) # <<>>
    /\ from <= ParseTimestampToSeconds(LineMarker(line)[1]).value
    /\ ParseTimestampToSeconds(LineMarker(line)[1]).value < to

\* lines 134-139: the line carries a marker whose seconds lie in the window
LineInWindow(line, from, to) ==
    /\ LineMarker(line) # <<>>
    /\ from <= ParseTimestampToSeconds(LineMarker(line)[1]).value
    /\ ParseTimestampToSeconds(LineMarker(line)[1]).value <= to

\* lines 132-140: the selected lines, joined
RECURSIVE SegmentLines(_, _, _)
SegmentLines(lines, from, to) ==
    IF lines = <<>> THEN <<>>
    ELSE (IF LineInWindow(Head(lines), from, to) THEN <<Head(lines)>>
          ELSE <<>>) \o SegmentLines(Tail(lines), from, to)

SegmentText(transcript, from, to) ==
    Join(SegmentLines(Split(Strip(transcript), "\n"), from, to), <<"\n">>)

\* the timestamps get_transcript_segment parses before it computes the
\* window: the anchor's, and its successor's unless the anchor is the last
ParsedAnchors(infos, idx) ==
    IF idx = Len(infos) - 1 THEN {idx + 1} ELSE {idx + 1, idx + 2}

AnchorTexts ==
    { <<"0", ":", "1", "0">>, <<"1", ":", "0", "0">>, <<"2", ":", "0", "0">> }

AnchorLists ==
    SeqsUpTo({TimestampInfo(t, <<>>) : t \in AnchorTexts}, MaxAnchors)
    \ {<<>>}

ContextAfterChoices == {0, 90, 120}

ContextBeforeChoices == {0, 30}

TranscriptLines ==
    { <<"[", "0", ":", "1", "0", "]", " ", "a">>,
      <<"[", "0", ":", "5", "0", "]", " ", "b">>,
      <<"[", "2", ":", "0", "0", "]", " ", "c">>,
      <<"x">> }

\* "[0:10] a\n[0:50] b\n[2:00] c"
ExampleTranscript ==
    <<"[", "0", ":", "1", "0", "]", " ", "a", "\n",
      "[", "0", ":", "5", "0", "]", " ", "b", "\n",
      "[", "2", ":", "0", "0", "]", " ", "c">>

\* "x [1:00]\n[01:00] e\n[01:00] e\n[00:01:00] f": a marker that does not
\* lead its line, one line twice, and an hour-form marker
MarkerFormsTranscript ==
    <<"x", " ", "[", "1", ":", "0", "0", "]", "\n", "[", "0", "1", ":", "0",
      "0", "]", " ", "e", "\n", "[", "0", "1", ":", "0", "0", "]", " ", "e",
      "\n", "[", "0", "0", ":", "0", "1", ":", "0", "0", "]", " ", "f">>

Transcripts ==
    {Join(ls, <<"\n">>) : ls \in SeqsUpTo(TranscriptLines, MaxTranscriptLines)}
    \cup {ExampleTranscript, MarkerFormsTranscript}

\* get_transcript_segment(transcript, idx, infos, limit, before): the locals
\* start_time and end_time at its end, and its outcome
GetTranscriptSegment(transcript, idx, infos, limit, before) ==
    IF \E k \in ParsedAnchors(infos, idx) :
           ParseTimestampToSeconds(infos[k].timestamp).exc # "none"
    THEN [start_time |-> 0, end_time |-> 0,
          segment |-> Raised("ValueError")]
    ELSE LET target_seconds ==
                 ParseTimestampToSeconds(infos[idx + 1].timestamp).value
             from == StartTime(target_seconds, before)
             to == EndTime(target_seconds,
                           ContextAfterSec(infos, idx, limit))
         IN  [start_time |-> from, end_time |-> to,
              segment |-> Returned(SegmentText(transcript, from, to))]

CallGetTranscriptSegment ==
    /\ UNCHANGED <<splitVars, guiVars>>
    /\ pc = "start"
    /\ \E infos \in AnchorLists, transcript \in Transcripts,
          limit \in ContextAfterChoices, before \in ContextBeforeChoices :
          \E idx \in 0..(Len(infos) - 1) :
              \E call \in {GetTranscriptSegment(transcript, idx, infos,
                                                limit, before)} :
                  /\ raw_transcript' = transcript
                  /\ current_timestamp_index' = idx
                  /\ all_timestamps' = infos
                  /\ manual_context_limit_sec' = limit
                  /\ context_before_sec' = before
                  /\ start_time' = call.start_time
                  /\ end_time' = call.end_time
                  /\ segment' = call.segment
    /\ pc' = "segment returned"
    /\ UNCHANGED <<codecVars, validateVars, parseVars, processVars, stitchVars>>

NextSegment == CallGetTranscriptSegment

SpecSegment == Init /\ [][NextSegment]_vars

(***************************************************************************)
(* process_timestamps (main.py) and its collaborator                       *)
(* extract_quote_with_gemini (quote_extraction.py).                        *)
(***************************************************************************)
\* find_transcript_max_timestamp, lines 240-244: the seconds of the last
\* line that carries a marker, looking back from line k; 0 when none does
RECURSIVE LastMarkerSeconds(_, _)
LastMarkerSeconds(lines, k) ==
    IF k = 0 THEN 0
    ELSE IF LineMarker(lines[k]) # <<>>
         THEN ParseTimestampToSeconds(LineMarker(lines[k])[1]).value
         ELSE LastMarkerSeconds(lines, k - 1)

FindTranscriptMaxTimestamp(transcript) ==
    LET lines == Split(Strip(transcript), "\n")
    IN  LastMarkerSeconds(lines, Len(lines))

\* quote_extraction.py line 49: f"[{timestamp}]\n{response.text.strip()}"
QuoteText(ts, text) == <<"[">> \o ts \o <<"]", "\n">> \o Strip(text)

\* what one call of extract_quote_with_gemini can come to, its retries
\* included: the model's answer, or the error left after the last attempt
QuoteResponses == {Returned(<<"q", " ">>), Raised("RetryError")}

\* extract_quote_with_gemini(segment, timestamp, ...): the quote text, or
\* the collaborator's error
ExtractQuote(ts, response) ==
    IF response.exc # "none" THEN response
    ELSE Returned(QuoteText(ts, response.value))

\* what a loop iteration did: the event it logged, the frame of its call of
\* get_transcript_segment, its call of the collaborator, the quote it added
IterationResult(event, frames, requests, quotes) ==
    [event |-> event, frames |-> frames, requests |-> requests,
     quotes |-> quotes]

\* mutant: an empty segment is handed to the collaborator like any other
SegmentBranchNoEmptyCheck(call, ts_info, idx, response) ==
    IF call.segment.exc # "none"
    THEN IterationResult("segment failed", <<call>>, <<>>, <<>>)
    ELSE LET outcome == ExtractQuote(ts_info.timestamp, response)
             request == [index |-> idx, segment |-> call.segment.value,
                         outcome |-> outcome]
         IN  IF outcome.exc # "none"
             THEN IterationResult("quote failed", <<call>>, <<request>>, <<>>)
             ELSE IterationResult("quoted", <<call>>, <<request>>,
                                  <<outcome.value>>)

\* main.py lines 275-299: after the call of get_transcript_segment
SegmentBranch(call, ts_info, idx, response) ==
    IF call.segment.exc # "none"
    THEN IterationResult("segment failed", <<call>>, <<>>, <<>>)
    ELSE IF call.segment.value = <<>>
    THEN IterationResult("empty segment", <<call>>, <<>>, <<>>)
    ELSE LET outcome == ExtractQuote(ts_info.timestamp, response)
             request == [index |-> idx, segment |-> call.segment.value,
                         outcome |-> outcome]
         IN  IF outcome.exc # "none"
             THEN IterationResult("quote failed", <<call>>, <<request>>, <<>>)
             ELSE IterationResult("quoted", <<call>>, <<request>>,
                                  <<outcome.value>>)

\* mutant: an anchor at the transcript's last timestamp is skipped too
IterationSkipsAtEnd(infos, idx, ts_seconds, text, after, before, last, response) ==
    IF ts_seconds >= last
    THEN IterationResult("beyond end", <<>>, <<>>, <<>>)
    ELSE SegmentBranch(GetTranscriptSegment(text, idx, infos, after, before),
                       infos[idx + 1], idx, response)

\* main.py lines 254-299: one iteration of the loop, for the record at idx
\* (counted from 0) whose timestamp parses to ts_seconds
Iteration(infos, idx, ts_seconds, text, after, before, last, response) ==
    IF ts_seconds > last
    THEN IterationResult("beyond end", <<>>, <<>>, <<>>)
    ELSE SegmentBranch(GetTranscriptSegment(text, idx, infos, after, before),
                       infos[idx + 1], idx, response)

\* mutant: a failure ends the loop
NextTsIndexBreakOnFailure(event, idx, n) ==
    IF event \in {"segment failed", "quote failed"} THEN n ELSE idx + 1

\* the for loop of line 253: `continue` and the end of the body both go on
\* with the next record
NextTsIndex(event, idx, n) == idx + 1

\* "[0:10] a"
ShortTranscript == <<"[", "0", ":", "1", "0", "]", " ", "a">>

\* "[00:50] e\n[00:30] x": what stitching makes of the chunks "[0:00:50] e"
\* at offset 0 and "[0:00] x" at offset 30
UnorderedTranscript ==
    <<"[", "0", "0", ":", "5", "0", "]", " ", "e", "\n",
      "[", "0", "0", ":", "3", "0", "]", " ", "x">>

ProcessTranscripts ==
    {ExampleTranscript, MarkerFormsTranscript, ShortTranscript,
     UnorderedTranscript}

\* process_timestamps(...), lines 250-251
CallProcessTimestamps ==
    /\ UNCHANGED <<splitVars, guiVars>>
    /\ pc = "start"
    /\ \E infos \in AnchorLists, transcript \in ProcessTranscripts,
          after \in ContextAfterChoices, before \in ContextBeforeChoices :
          /\ timestamps_to_process' = infos
          /\ full_transcript' = transcript
          /\ context_after' = after
          /\ context_before' = before
          /\ last_ts_seconds' = FindTranscriptMaxTimestamp(transcript)
    /\ extracted_quotes' = <<>>
    /\ ts_index' = 0
    /\ pc' = "processing"
    /\ UNCHANGED <<codecVars, valid, parseVars, segmentVars, quote_requests,
                   iteration_log, stitchVars>>

\* one iteration of the loop of lines 253-299
ProcessTimestamp ==
    /\ UNCHANGED <<splitVars, guiVars>>
    /\ pc = "processing"
    /\ ts_index < Len(timestamps_to_process)
    /\ LET ts_seconds ==
              ParseTimestampToSeconds(
                  timestamps_to_process[ts_index + 1].timestamp)
       IN  IF ts_seconds.exc # "none"
           THEN /\ pc' = "process raised"
                /\ UNCHANGED <<segmentVars, ts_index, extracted_quotes,
                               quote_requests, iteration_log>>
           ELSE \E response \in QuoteResponses :
                \E done \in {Iteration(timestamps_to_process, ts_index,
                                       ts_seconds.value, full_transcript,
                                       context_after, context_before,
                                       last_ts_seconds, response)} :
                    /\ IF done.frames = <<>>
                       THEN UNCHANGED segmentVars
                       ELSE /\ raw_transcript' = full_transcript
                            /\ current_timestamp_index' = ts_index
                            /\ all_timestamps' = timestamps_to_process
                            /\ manual_context_limit_sec' = context_after
                            /\ context_before_sec' = context_before
                            /\ start_time' = done.frames[1].start_time
                            /\ end_time' = done.frames[1].end_time
                            /\ segment' = done.frames[1].segment
                    /\ quote_requests' = quote_requests \o done.requests
                    /\ extracted_quotes' = extracted_quotes \o done.quotes
                    /\ iteration_log' =
                          Append(iteration_log,
                                 [index |-> ts_index, event |-> done.event])
                    /\ ts_index' =
                          NextTsIndex(done.event, ts_index,
                                      Len(timestamps_to_process))
                    /\ pc' = "processing"
    /\ UNCHANGED <<codecVars, validateVars, parseVars, full_transcript,
                   context_after, context_before, last_ts_seconds,
                   stitchVars>>

\* line 301: return extracted_quotes
ReturnQuotes ==
    /\ UNCHANGED <<splitVars, guiVars>>
    /\ pc = "processing"
    /\ ts_index >= Len(timestamps_to_process)
    /\ pc' = "quotes returned"
    /\ UNCHANGED <<codecVars, validateVars, parseVars, segmentVars,
                   processVars, stitchVars>>

NextProcess == CallProcessTimestamps \/ ProcessTimestamp \/ ReturnQuotes

SpecProcess == Init /\ [][NextProcess]_vars

(***************************************************************************)
(* transcribe_audio_with_chunking (transcript_utils.py) and its            *)
(* collaborator transcribe_audio.                                          *)
(***************************************************************************)
\* DEFAULT_SETTINGS["retry_attempts"]
RetryAttempts == 3

\* re.sub(pattern, repl, transcript) from position p on, for at most budget
\* replacements: every match of the marker pattern, left to right, is
\* replaced by repl's marker, everything else is copied
RECURSIVE SubFrom(_, _, _, _)
SubFrom(s, p, off, budget) ==
    IF p > Len(s) THEN <<>>
    ELSE IF budget > 0 /\ MarkerGroupAt(s, p) # <<>>
    THEN Repl(MarkerGroupAt(s, p)[1], off)
         \o SubFrom(s, p + Len(MarkerGroupAt(s, p)[1]) + 2, off, budget - 1)
    ELSE <<s[p]>> \o SubFrom(s, p + 1, off, budget)

\* mutant: only the first marker is rewritten
AdjustFirstTimestampOnly(transcript, off) == SubFrom(transcript, 1, off, 1)

\* adjust_transcript_timestamps(transcript, offset_sec), line 163
AdjustTranscriptTimestamps(transcript, off) ==
    SubFrom(transcript, 1, off, Len(transcript))

\* mutant: nothing is dropped
NewLinesKeepAll(lines, seen) == lines

\* mutant: a line is dropped when its text after the marker was seen
NewLinesByText(lines, seen) ==
    LET TextOf(l) == IF LineMarker(l) = <<>> THEN l
                     ELSE SubSeq(l, Len(LineMarker(l)[1]) + 3, Len(l))
        Unseen(l) == TextOf(l) \notin {TextOf(o) : o \in seen}
    IN  SelectSeq(lines, Unseen)

\* the lines without the repetitions of an earlier line
RECURSIVE DropRepeats(_)
DropRepeats(ls) ==
    IF ls = <<>> THEN <<>>
    ELSE LET front == SubSeq(ls, 1, Len(ls) - 1)
         IN  IF \E j \in 1..Len(front) : front[j] = ls[Len(ls)]
             THEN DropRepeats(front)
             ELSE Append(DropRepeats(front), ls[Len(ls)])

\* mutant: a line repeated inside the chunk is kept once
NewLinesFirstOnly(lines, seen) ==
    LET Unseen(l) == l \notin seen
    IN  SelectSeq(DropRepeats(lines), Unseen)

\* line 270: [line for line in lines if line not in prev_lines]
NewLines(lines, seen) ==
    LET Unseen(l) == l \notin seen
    IN  SelectSeq(lines, Unseen)

\* lines 266-272: the loop over the chunk transcripts from the k-th on, with
\* the locals stitched and prev_lines
RECURSIVE StitchFrom(_, _, _, _)
StitchFrom(ts, k, acc, seen) ==
    IF k > Len(ts) THEN [stitched |-> acc, prev_lines |-> seen]
    ELSE LET new_lines == NewLines(Split(Strip(ts[k]), "\n"), seen)
         IN  StitchFrom(ts, k + 1, acc \o new_lines,
                        seen \cup {new_lines[j] : j \in DOMAIN new_lines})

\* [0:00] x / [0:30] y
ChunkTextXY ==
    <<"[", "0", ":", "0", "0", "]", " ", "x", "\n", "[", "0", ":", "3", "0",
      "]", " ", "y">>

\* [0:20] y / [0:40] z
ChunkTextYZ ==
    <<"[", "0", ":", "2", "0", "]", " ", "y", "\n", "[", "0", ":", "4", "0",
      "]", " ", "z">>

\* [0:00] y / [0:10] z
ChunkTextOverlapYZ ==
    <<"[", "0", ":", "0", "0", "]", " ", "y", "\n", "[", "0", ":", "1", "0",
      "]", " ", "z">>

\* [0:40] a [0:41] / [0:40] a
ChunkTextLate ==
    <<"[", "0", ":", "4", "0", "]", " ", "a", " ", "[", "0", ":", "4", "1",
      "]", "\n", "[", "0", ":", "4", "0", "]", " ", "a">>

\* [05:00] c / [1:00:00] d
ChunkTextFiveMinutes ==
    <<"[", "0", "5", ":", "0", "0", "]", " ", "c", "\n", "[", "1", ":", "0",
      "0", ":", "0", "0", "]", " ", "d">>

\* [0:00:50] e
ChunkTextHourForm ==
    <<"[", "0", ":", "0", "0", ":", "5", "0", "]", " ", "e">>

\* [0:00] x / (blank) / w / w: a blank line and a repeated continuation line
ChunkTextContinued ==
    <<"[", "0", ":", "0", "0", "]", " ", "x", "\n", "\n", "w", "\n", "w">>

\* the texts transcribe_audio returns for a chunk
ChunkTexts ==
    {ChunkTextXY, ChunkTextYZ, ChunkTextOverlapYZ, ChunkTextLate,
     ChunkTextFiveMinutes, ChunkTextHourForm, ChunkTextContinued}

\* what one call of transcribe_audio can come to, its retries included
ChunkResponses ==
    {Returned(t) : t \in ChunkTexts} \cup {Raised("RetryError")}

\* the start seconds split_audio_chunks gives its chunks: 0 for the first,
\* then increasing
ChunkOffsets == {0, 30, 3600}

ChunkLists ==
    {c \in SeqsUpTo([start_sec : ChunkOffsets], MaxChunks) :
        /\ c # <<>>
        /\ c[1].start_sec = 0
        /\ \A j \in 1..(Len(c) - 1) : c[j].start_sec < c[j + 1].start_sec}

\* the request counts are kept up to one past the retry limit; greater
\* counts are not told apart
RequestsCap == RetryAttempts + 1

\* one more request for the chunk at position k (from 1)
Requested(counts, k) == [counts EXCEPT ![k] = Min2(@ + 1, RequestsCap)]

\* transcribe_audio_with_chunking(...) when the file is split, lines
\* 244-256: the first attempt starts; no transcript file exists, or
\* get_or_create_transcript would not call
CallTranscribeAudioWithChunking ==
    /\ UNCHANGED <<splitVars, guiVars>>
    /\ pc = "start"
    /\ \E c \in ChunkLists :
          /\ chunks' = c
          /\ requests_sent' = [k \in 1..Len(c) |-> 0]
    /\ attempt' = 1
    /\ request_attempt' = 1
    /\ chunk_idx' = 0
    /\ transcripts' = <<>>
    /\ chunk_transcripts' = <<>>
    /\ pc' = "transcribing"
    /\ UNCHANGED <<codecVars, validateVars, parseVars, segmentVars,
                   processVars, stitched, prev_lines, chunked_result,
                   chunk_files, transcript_file>>

\* transcribe_audio, lines 177-230: the request fails and the @retry wrapper
\* of line 177 has attempts left, so that it sends the request again
TranscriptionRequestFails ==
    /\ UNCHANGED <<splitVars, guiVars>>
    /\ pc = "transcribing"
    /\ chunk_idx < Len(chunks)
    /\ request_attempt < RetryAttempts
    /\ requests_sent' = Requested(requests_sent, chunk_idx + 1)
    /\ request_attempt' = request_attempt + 1
    /\ UNCHANGED <<pc, codecVars, validateVars, parseVars, segmentVars,
                   processVars, chunks, chunk_idx, chunk_transcripts, attempt,
                   transcripts, stitched, prev_lines, chunked_result,
                   chunk_files, transcript_file>>

\* mutant: the chunk's transcript is written to transcript_filename itself
TranscriptFileAfterChunkOverwritten(file, text) == <<text>>

\* lines 259-261: the chunk's transcript goes to the file named by
\* transcript_filename.replace('.txt', '_chunkN.txt'), another file than
\* transcript_filename, which keeps its content
TranscriptFileAfterChunk(file, text) == file

\* lines 258-263: the request is answered; transcribe_audio writes the
\* chunk's transcript file (lines 222-225) and returns the transcript
TranscribeChunk ==
    /\ UNCHANGED <<splitVars, guiVars>>
    /\ pc = "transcribing"
    /\ chunk_idx < Len(chunks)
    /\ \E t \in ChunkTexts :
          /\ chunk_transcripts' = Append(chunk_transcripts, t)
          /\ transcripts' =
                Append(transcripts,
                       AdjustTranscriptTimestamps(
                           t, chunks[chunk_idx + 1].start_sec))
          /\ transcript_file' = TranscriptFileAfterChunk(transcript_file, t)
    /\ requests_sent' = Requested(requests_sent, chunk_idx + 1)
    /\ chunk_files' = chunk_files \cup {chunk_idx + 1}
    /\ chunk_idx' = chunk_idx + 1
    /\ request_attempt' = 1
    /\ UNCHANGED <<pc, codecVars, validateVars, parseVars, segmentVars,
                   processVars, chunks, attempt, stitched, prev_lines,
                   chunked_result>>

\* line 261: the last attempt of transcribe_audio fails and it raises; the
\* error leaves the function, and the @retry wrapper of line 231 calls it
\* again from the first chunk or gives up
ChunkTranscriptionFails ==
    /\ UNCHANGED <<splitVars, guiVars>>
    /\ pc = "transcribing"
    /\ chunk_idx < Len(chunks)
    /\ request_attempt = RetryAttempts
    /\ requests_sent' = Requested(requests_sent, chunk_idx + 1)
    /\ IF attempt < RetryAttempts
       THEN /\ attempt' = attempt + 1
            /\ request_attempt' = 1
            /\ chunk_idx' = 0
            /\ transcripts' = <<>>
            /\ chunk_transcripts' = <<>>
            /\ UNCHANGED <<pc, chunked_result>>
       ELSE /\ chunked_result' = Raised("RetryError")
            /\ pc' = "transcription failed"
            /\ UNCHANGED <<attempt, request_attempt, chunk_idx, transcripts,
                           chunk_transcripts>>
    /\ UNCHANGED <<codecVars, validateVars, parseVars, segmentVars,
                   processVars, chunks, stitched, prev_lines, chunk_files,
                   transcript_file>>

\* lines 265-278: every chunk is transcribed; stitch, write the transcript
\* file and return
StitchTranscripts ==
    /\ UNCHANGED <<splitVars, guiVars>>
    /\ pc = "transcribing"
    /\ chunk_idx = Len(chunks)
    /\ \E done \in {StitchFrom(transcripts, 1, <<>>, {})} :
           /\ stitched' = done.stitched
           /\ prev_lines' = done.prev_lines
           /\ transcript_file' = <<Join(done.stitched, <<"\n">>)>>
           /\ chunked_result' = Returned(Join(done.stitched, <<"\n">>))
    /\ pc' = "stitched"
    /\ UNCHANGED <<codecVars, validateVars, parseVars, segmentVars,
                   processVars, chunks, chunk_idx, chunk_transcripts,
                   attempt, transcripts, request_attempt, requests_sent,
                   chunk_files>>

\* get_or_create_transcript (main.py lines 209-233) for the same title, after
\* a call of transcribe_audio_with_chunking has ended: the transcript file
\* is read when it exists, and the same audio is transcribed again when not
GetOrCreateTranscript ==
    /\ UNCHANGED <<splitVars, guiVars>>
    /\ pc \in {"stitched", "transcription failed"}
    /\ IF transcript_file # <<>>
       THEN /\ full_transcript' = transcript_file[1]
            /\ pc' = "transcript read"
            /\ UNCHANGED <<attempt, request_attempt, requests_sent, chunk_idx,
                           transcripts, chunk_transcripts, chunked_result>>
       ELSE /\ attempt' = 1
            /\ request_attempt' = 1
            /\ requests_sent' = [k \in 1..Len(chunks) |-> 0]
            /\ chunk_idx' = 0
            /\ transcripts' = <<>>
            /\ chunk_transcripts' = <<>>
            /\ chunked_result' = NotCalled
            /\ pc' = "transcribing"
            /\ UNCHANGED full_transcript
    /\ UNCHANGED <<codecVars, validateVars, parseVars, segmentVars,
                   context_after, context_before, last_ts_seconds, ts_index,
                   extracted_quotes, quote_requests, iteration_log, chunks,
                   stitched, prev_lines, chunk_files, transcript_file>>

NextStitch ==
    \/ CallTranscribeAudioWithChunking
    \/ TranscriptionRequestFails
    \/ TranscribeChunk
    \/ ChunkTranscriptionFails
    \/ StitchTranscripts
    \/ GetOrCreateTranscript

SpecStitch == Init /\ [][NextStitch]_vars

(***************************************************************************)
(* split_audio_chunks (audio_utils.py).                                    *)
(***************************************************************************)
\* chunk_length_min, in minutes
ChunkLengthChoices == {1, 2}

\* overlap_sec, in seconds; 60 is the whole length of a chunk of one minute
OverlapChoices == {0, 30, 45, 60}

\* len(audio) in milliseconds: steps of 7.5 s, and lengths one millisecond
\* off a whole second or a whole chunk
DurationChoices ==
    {k * 7500 : k \in 0..MaxDurationSteps}
    \cup {1, 999, 59999, 60001, 90500}

\* mutant: the chunk is not cut at the end of the audio
ChunkEndMsUnclipped(start, length, duration) == start + length

\* line 105: end_ms = min(start_ms + chunk_length_ms, duration_ms)
ChunkEndMs(start, length, duration) == Min2(start + length, duration)

\* mutant: the next chunk starts an overlap before the start of this one
NextStartMsFromStart(start, end, overlap) == start - overlap

\* line 112: start_ms = end_ms - overlap_ms
NextStartMs(start, end, overlap) == end - overlap

\* split_audio_chunks(audio_path, chunk_length_min, overlap_sec), lines
\* 91-102, with an overlap no longer than a chunk
CallSplitAudioChunks ==
    /\ pc = "start"
    /\ \E chunk_length_min \in ChunkLengthChoices,
          overlap_sec \in OverlapChoices, duration \in DurationChoices :
          /\ overlap_sec * 1000 <= chunk_length_min * 60 * 1000
          /\ chunk_length_ms' = chunk_length_min * 60 * 1000
          /\ overlap_ms' = overlap_sec * 1000
          /\ duration_ms' = duration
    /\ chunks' = <<>>
    /\ chunk_ranges' = <<>>
    /\ start_ms' = 0
    /\ end_ms' = 0
    /\ pc' = "splitting"
    /\ UNCHANGED <<codecVars, validateVars, parseVars, segmentVars,
                   processVars, chunk_idx, chunk_transcripts, attempt,
                   transcripts, stitched, prev_lines, chunked_result,
                   request_attempt, requests_sent, chunk_files,
                   transcript_file, guiVars>>

\* lines 104-113: one iteration of the while loop; the break of line 111
\* leads to the return of line 114
SplitChunk ==
    /\ pc = "splitting"
    /\ start_ms < duration_ms
    /\ Len(chunks) < MaxSplitChunks
    /\ \E end \in {ChunkEndMs(start_ms, chunk_length_ms, duration_ms)} :
          /\ end_ms' = end
          /\ chunk_ranges' = Append(chunk_ranges, [from |-> start_ms, to |-> end])
          /\ chunks' = Append(chunks, [start_sec |-> start_ms \div 1000])
          /\ IF end = duration_ms
             THEN /\ pc' = "chunks returned"
                  /\ UNCHANGED start_ms
             ELSE /\ start_ms' = NextStartMs(start_ms, end, overlap_ms)
                  /\ UNCHANGED pc
    /\ UNCHANGED <<codecVars, validateVars, parseVars, segmentVars,
                   processVars, chunk_idx, chunk_transcripts, attempt,
                   transcripts, stitched, prev_lines, chunked_result,
                   request_attempt, requests_sent, chunk_files,
                   transcript_file, duration_ms, chunk_length_ms, overlap_ms,
                   guiVars>>

\* lines 104 and 114: the loop condition fails; return chunks
ReturnChunks ==
    /\ pc = "splitting"
    /\ ~(start_ms < duration_ms)
    /\ pc' = "chunks returned"
    /\ UNCHANGED <<codecVars, validateVars, parseVars, segmentVars,
                   processVars, stitchVars, splitVars, guiVars>>

NextSplit == CallSplitAudioChunks \/ SplitChunk \/ ReturnChunks

SpecSplit == Init /\ [][NextSplit]_vars

\* the function runs on until it returns
SpecSplitLive ==
    SpecSplit /\ WF_vars(SplitChunk) /\ WF_vars(ReturnChunks)

(***************************************************************************)
(* The desktop GUI (gui_app.py): the handlers of the Start and Stop        *)
(* buttons, which run on the Tk main thread, and the worker threads.       *)
(***************************************************************************)
\* what the user has typed into the URL field and the timestamps field
UrlEntries == {<<>>, <<" ">>, ExampleUrl}

TimestampEntries == {<<>>, <<"1", ":", "3", "0">>}

ProcessingModes == {"transcript", "both"}

\* YouTubeExtractorGUI.__init__, lines 54-62, 191-206 and 217, and mainloop
OpenGui ==
    /\ pc = "start"
    /\ is_processing' = FALSE
    /\ process_btn' = "normal"
    /\ stop_btn' = "disabled"
    /\ progress_bar' = FALSE
    /\ progress_var' = "Ready"
    /\ processing_mode' = "both"
    /\ url_entry' = <<>>
    /\ timestamps_text' = <<>>
    /\ threads' = <<>>
    /\ pc' = "gui"
    /\ UNCHANGED <<codecVars, validateVars, parseVars, segmentVars,
                   processVars, stitchVars, splitVars, message_shown>>

\* start_processing, lines 419-444: a click on the Start Processing button,
\* which Tk delivers only while the button is not disabled, after the user
\* has filled the fields
ClickStart ==
    /\ pc = "gui"
    /\ process_btn = "normal"
    /\ Len(threads) < MaxThreads
    /\ \E url \in UrlEntries, mode \in ProcessingModes,
          ts \in TimestampEntries :
          /\ url_entry' = url
          /\ processing_mode' = mode
          /\ timestamps_text' = ts
          /\ IF is_processing
             THEN UNCHANGED <<is_processing, process_btn, stop_btn,
                              progress_bar, message_shown, threads>>
             ELSE IF Strip(url) = <<>>
             THEN /\ message_shown' = "Please enter a YouTube URL!"
                  /\ UNCHANGED <<is_processing, process_btn, stop_btn,
                                 progress_bar, threads>>
             ELSE IF mode = "both" /\ Strip(ts) = <<>>
             THEN /\ message_shown' =
                        "Please enter timestamps for quote extraction!"
                  /\ UNCHANGED <<is_processing, process_btn, stop_btn,
                                 progress_bar, threads>>
             ELSE /\ is_processing' = TRUE
                  /\ process_btn' = "disabled"
                  /\ stop_btn' = "normal"
                  /\ progress_bar' = TRUE
                  /\ threads' = Append(threads, [mode |-> mode,
                                                  state |-> "running"])
                  /\ UNCHANGED message_shown
    /\ UNCHANGED <<pc, codecVars, validateVars, parseVars, segmentVars,
                   processVars, stitchVars, splitVars, progress_var>>

\* stop_processing, lines 521-524, with its call of processing_complete,
\* lines 526-532: a click on the Stop button while it is not disabled
ClickStop ==
    /\ pc = "gui"
    /\ stop_btn = "normal"
    /\ is_processing' = FALSE
    /\ process_btn' = "normal"
    /\ stop_btn' = "disabled"
    /\ progress_bar' = FALSE
    /\ progress_var' = "Processing complete!"
    /\ UNCHANGED <<pc, codecVars, validateVars, parseVars, segmentVars,
                   processVars, stitchVars, splitVars, url_entry,
                   processing_mode, timestamps_text, message_shown, threads>>

\* the logging handler, lines 369-373, and update_status, lines 379-382: a
\* running worker logs a message, which becomes the status line
WorkerReportsProgress ==
    /\ pc = "gui"
    /\ \E i \in 1..Len(threads) : threads[i].state = "running"
    /\ progress_var' = "working"
    /\ UNCHANGED <<pc, codecVars, validateVars, parseVars, segmentVars,
                   processVars, stitchVars, splitVars, is_processing,
                   process_btn, stop_btn, progress_bar, url_entry,
                   processing_mode, timestamps_text, message_shown, threads>>

\* process_video, lines 446-458: a worker comes to its end, with or without
\* an error, and queues processing_complete for the main thread (line 458)
WorkerFinishes ==
    /\ pc = "gui"
    /\ \E i \in 1..Len(threads) :
          /\ threads[i].state = "running"
          /\ threads' = [threads EXCEPT ![i].state = "finished"]
    /\ UNCHANGED <<pc, codecVars, validateVars, parseVars, segmentVars,
                   processVars, stitchVars, splitVars, is_processing,
                   process_btn, stop_btn, progress_bar, progress_var,
                   url_entry, processing_mode, timestamps_text,
                   message_shown>>

\* processing_complete, lines 526-532, run by the main loop for a worker
\* that has finished
RunProcessingComplete ==
    /\ pc = "gui"
    /\ \E i \in 1..Len(threads) :
          /\ threads[i].state = "finished"
          /\ threads' = [threads EXCEPT ![i].state = "done"]
    /\ is_processing' = FALSE
    /\ process_btn' = "normal"
    /\ stop_btn' = "disabled"
    /\ progress_bar' = FALSE
    /\ progress_var' = "Processing complete!"
    /\ UNCHANGED <<pc, codecVars, validateVars, parseVars, segmentVars,
                   processVars, stitchVars, splitVars, url_entry,
                   processing_mode, timestamps_text, message_shown>>

NextGui ==
    \/ OpenGui
    \/ ClickStart
    \/ ClickStop
    \/ WorkerReportsProgress
    \/ WorkerFinishes
    \/ RunProcessingComplete

SpecGui == Init /\ [][NextGui]_vars

(***************************************************************************)
(* Properties of the timestamp codec.                                      *)
(***************************************************************************)
RECURSIVE Pow10(_)
Pow10(k) == IF k = 0 THEN 1 ELSE 10 * Pow10(k - 1)

\* the number a text of decimal digits denotes, most significant digit first
RECURSIVE NumberOf(_)
NumberOf(f) ==
    IF f = <<>> THEN 0
    ELSE DigitVal(Head(f)) * Pow10(Len(f) - 1) + NumberOf(Tail(f))

IsDigits(f) == f # <<>> /\ \A i \in 1..Len(f) : IsDigit(f[i])

\* C1: a second count n with hours up to 99, rendered as a marker by repl
\* and read back from the marker with parse_timestamp_to_seconds, gives n;
\* only a marker of 100 hours or more is not read back.
C1_RoundTrip ==
    /\ pc = "reparsed" => seconds = Returned(total_sec)
    /\ pc = "unmatched" => total_sec >= 100 * 3600

C1_Witness ==
    /\ pc = "reparsed"
    /\ total_sec = 3900
    /\ timestamp = <<"0", "1", ":", "0", "5", ":", "0", "0">>
    /\ seconds = Returned(3900)

\* the text with one more leading zero on field i
WithLeadingZero(fields, i) ==
    Join([k \in 1..Len(fields) |->
             IF k = i THEN <<"0">> \o fields[k] ELSE fields[k]], <<":">>)

\* C2: on colon-delimited numeric text parse_timestamp_to_seconds returns
\* minutes*60 + seconds for 2 parts and hours*3600 + minutes*60 + seconds
\* for 3 parts, and a leading zero on any field does not change the result
\* ("1:30" and "01:30" give 90, "01:02:03" gives 3723).
C2_ParseFields ==
    pc = "parsed" =>
        LET f == Split(timestamp, ":")
        IN  /\ (Len(f) = 2 /\ \A i \in 1..2 : IsDigits(f[i])) =>
                  /\ seconds = Returned(NumberOf(f[1]) * 60 + NumberOf(f[2]))
                  /\ \A i \in 1..2 :
                        ParseTimestampToSeconds(WithLeadingZero(f, i)) = seconds
            /\ (Len(f) = 3 /\ \A i \in 1..3 : IsDigits(f[i])) =>
                  /\ seconds = Returned(NumberOf(f[1]) * 3600
                                        + NumberOf(f[2]) * 60 + NumberOf(f[3]))
                  /\ \A i \in 1..3 :
                        ParseTimestampToSeconds(WithLeadingZero(f, i)) = seconds
            /\ timestamp = <<"1", ":", "3", "0">> => seconds = Returned(90)
            /\ timestamp = <<"0", "1", ":", "3", "0">> => seconds = Returned(90)
            /\ timestamp = <<"0", "1", ":", "0", "2", ":", "0", "3">> =>
                  seconds = Returned(3723)

C2_Witness ==
    /\ pc = "parsed"
    /\ timestamp = <<"0", "1", ":", "0", "2", ":", "0", "3">>
    /\ seconds = Returned(3723)

SegmentCount(t) == Cardinality({i \in 1..Len(t) : t[i] = ":"}) + 1

\* a segment int() accepts: digits, an optional sign before them, whitespace
\* around
IsIntegerText(seg) ==
    \E i \in 1..Len(seg) : \E j \in i..Len(seg) :
        /\ \A k \in i..j : IsDigit(seg[k])
        /\ \A k \in (j + 1)..Len(seg) : IsSpace(seg[k])
        /\ \/ \A k \in 1..(i - 1) : IsSpace(seg[k])
           \/ /\ seg[i - 1] \in {"+", "-"}
              /\ \A k \in 1..(i - 2) : IsSpace(seg[k])

\* C3 as stated: text with 1 segment or with 4 or more segments gives 0 and
\* never an error.
C3_WrongCountGivesZero ==
    (pc = "parsed" /\ SegmentCount(timestamp) \notin {2, 3}) =>
        seconds = Returned(0)

\* C3 as amended: text with 1 segment or with 4 or more segments gives 0 when
\* every segment is an integer text, and ValueError as soon as one is not.
C3_WrongCountNumericGivesZero ==
    (pc = "parsed" /\ SegmentCount(timestamp) \notin {2, 3}) =>
        IF \A i \in 1..SegmentCount(timestamp) :
               IsIntegerText(Split(timestamp, ":")[i])
        THEN seconds = Returned(0)
        ELSE seconds = Raised("ValueError")

C3_Witness ==
    /\ pc = "parsed"
    /\ timestamp = <<"1", ":", "2", ":", "3", ":", "4">>
    /\ seconds = Returned(0)

\* the hour, minute and second of a second count
HourOf(n) == n \div 3600

MinuteOf(n) == (n - HourOf(n) * 3600) \div 60

SecondOf(n) == n - HourOf(n) * 3600 - MinuteOf(n) * 60

\* the colon-separated fields between the brackets of a marker
MarkerFields(mk) == Split(SubSeq(mk, 2, Len(mk) - 1), ":")

Bracketed(mk) == Len(mk) >= 2 /\ mk[1] = "[" /\ mk[Len(mk)] = "]"

\* a field of exactly 2 digits denoting v
TwoDigits(f, v) == Len(f) = 2 /\ IsDigits(f) /\ NumberOf(f) = v

\* a field denoting v zero-padded to 2 digits
PaddedTo2(f, v) ==
    /\ IsDigits(f)
    /\ NumberOf(f) = v
    /\ Len(f) >= 2
    /\ Len(f) > 2 => f[1] # "0"

\* a field denoting v without padding
Unpadded(f, v) ==
    /\ IsDigits(f)
    /\ NumberOf(f) = v
    /\ Len(f) > 1 => f[1] # "0"

\* C4 as stated: [HH:MM:SS] when hours > 0, else [MM:SS]; minute and second
\* fields zero-padded to 2 digits, the hour field not padded (3900 seconds
\* renders as [1:05:00]).
C4_HourUnpadded ==
    pc = "rendered" =>
        /\ Bracketed(marker)
        /\ IF HourOf(total_sec) > 0
           THEN /\ Len(MarkerFields(marker)) = 3
                /\ Unpadded(MarkerFields(marker)[1], HourOf(total_sec))
                /\ TwoDigits(MarkerFields(marker)[2], MinuteOf(total_sec))
                /\ TwoDigits(MarkerFields(marker)[3], SecondOf(total_sec))
           ELSE /\ Len(MarkerFields(marker)) = 2
                /\ TwoDigits(MarkerFields(marker)[1], MinuteOf(total_sec))
                /\ TwoDigits(MarkerFields(marker)[2], SecondOf(total_sec))

\* C4 as amended: [HH:MM:SS] when hours > 0, else [MM:SS]; the hour, minute
\* and second fields are all zero-padded to 2 digits (3900 seconds renders
\* as [01:05:00]).
C4_HourPadded ==
    pc = "rendered" =>
        /\ Bracketed(marker)
        /\ IF HourOf(total_sec) > 0
           THEN /\ Len(MarkerFields(marker)) = 3
                /\ PaddedTo2(MarkerFields(marker)[1], HourOf(total_sec))
                /\ TwoDigits(MarkerFields(marker)[2], MinuteOf(total_sec))
                /\ TwoDigits(MarkerFields(marker)[3], SecondOf(total_sec))
           ELSE /\ Len(MarkerFields(marker)) = 2
                /\ TwoDigits(MarkerFields(marker)[1], MinuteOf(total_sec))
                /\ TwoDigits(MarkerFields(marker)[2], SecondOf(total_sec))
        /\ total_sec = 3900 =>
              marker = <<"[", "0", "1", ":", "0", "5", ":", "0", "0", "]">>

C4_Witness ==
    /\ pc = "rendered"
    /\ total_sec = 3900
    /\ marker = <<"[", "0", "1", ":", "0", "5", ":", "0", "0", "]">>

(***************************************************************************)
(* Properties of validate_timestamps_format.                               *)
(***************************************************************************)
\* the whole text is 1-2 digits, a colon, 2 digits, and optionally a colon
\* and 2 digits
IsTimestampText(t) ==
    \E d \in 1..2 :
        /\ Len(t) \in {d + 3, d + 6}
        /\ \A i \in 1..d : IsDigit(t[i])
        /\ t[d + 1] = ":"
        /\ IsDigit(t[d + 2]) /\ IsDigit(t[d + 3])
        /\ Len(t) = d + 6 =>
              t[d + 4] = ":" /\ IsDigit(t[d + 5]) /\ IsDigit(t[d + 6])

\* C5: validation accepts a timestamp text iff the whole text is 1-2 digits,
\* a colon, 2 digits, optionally a colon and 2 digits; a list is valid iff
\* every record's timestamp is accepted.
C5_ExactFormat ==
    pc = "validated" =>
        (valid <=> \A i \in 1..Len(timestamps_to_process) :
                      IsTimestampText(timestamps_to_process[i].timestamp))

(***************************************************************************)
(* Properties of parse_input.                                              *)
(***************************************************************************)
\* the lines of the input block, each trimmed
TrimmedLines(block) ==
    LET raw == Split(block, "\n")
    IN  [i \in 1..Len(raw) |-> Strip(raw[i])]

\* the k-th smallest member of a set of indices
IdxAt(I, k) == CHOOSE i \in I : Cardinality({j \in I : j <= i}) = k

\* the lines with an index in I, in line order
LinesAt(lines, I) == [k \in 1..Cardinality(I) |-> lines[IdxAt(I, k)]]

\* the number of digits (1 or 2) of the leading field when the line starts
\* with 1-2 digits, a colon and 2 digits, else 0
LeadDigits(line) ==
    LET ds == {d \in 1..2 : /\ \A i \in 1..d : IsDigit(At(line, i))
                            /\ At(line, d + 1) = ":"
                            /\ IsDigit(At(line, d + 2))
                            /\ IsDigit(At(line, d + 3))}
    IN  IF ds = {} THEN 0 ELSE CHOOSE d \in ds : TRUE

StartsWithTimestamp(line) == LeadDigits(line) # 0

LeadingTimestamp(line) == SubSeq(line, 1, LeadDigits(line) + 3)

\* the line starts with a three-field timestamp H:MM:SS
StartsWithThreeFields(line) ==
    /\ StartsWithTimestamp(line)
    /\ At(line, LeadDigits(line) + 4) = ":"
    /\ IsDigit(At(line, LeadDigits(line) + 5))
    /\ IsDigit(At(line, LeadDigits(line) + 6))

\* the trimmed text after a dash separator that follows position p - 1,
\* the empty text when no separator follows
DescriptionAfter(line, p) ==
    LET rest == Strip(SubSeq(line, p, Len(line)))
    IN  IF rest # <<>> /\ rest[1] = "-" THEN Strip(Tail(rest)) ELSE <<>>

\* the record the line stands for
LineRecord(line) ==
    TimestampInfo(LeadingTimestamp(line),
                  DescriptionAfter(line, LeadDigits(line) + 4))

\* the positions where a URL starts: http:// or https:// and a visible
\* character
UrlStarts(line) ==
    {p \in 1..Len(line) :
        \E scheme \in { <<"h", "t", "t", "p", ":", "/", "/">>,
                         <<"h", "t", "t", "p", "s", ":", "/", "/">> } :
            /\ line[p] = "h"
            /\ p + Len(scheme) <= Len(line)
            /\ SubSeq(line, p, p + Len(scheme) - 1) = scheme
            /\ ~IsSpace(line[p + Len(scheme)])}

HoldsUrl(line) == UrlStarts(line) # {}

\* the first URL of a line: up to the next whitespace
FirstUrl(line) ==
    LET p == SetMin(UrlStarts(line))
        stop == {i \in p..Len(line) : IsSpace(line[i])} \cup {Len(line) + 1}
    IN  SubSeq(line, p, SetMin(stop) - 1)

UrlLines(lines) == {i \in 1..Len(lines) : HoldsUrl(lines[i])}

\* the line taken as the URL: the first one that holds a URL
TheUrlLine(lines) ==
    LET with == UrlLines(lines)
    IN  IF with = {} THEN {} ELSE {SetMin(with)}

TimestampLines(lines) ==
    {i \in 1..Len(lines) : StartsWithTimestamp(lines[i])}

RecordsOf(lines, I) ==
    [k \in 1..Cardinality(I) |-> LineRecord(lines[IdxAt(I, k)])]

Range(f) == {f[i] : i \in DOMAIN f}

\* C6 as stated: every input line that starts with a timestamp becomes
\* exactly one record, with that leading text as timestamp and the trimmed
\* text after the dash separator, or the empty text, as description.
C6_EveryTimestampLine ==
    pc = "input parsed" =>
        timestamps_data = RecordsOf(TrimmedLines(text_block),
                                    TimestampLines(TrimmedLines(text_block)))

\* C6 as amended: every input line that starts with a timestamp and is not
\* the line taken as the URL (the first line holding a URL) becomes exactly
\* one record, with that leading text as timestamp and the trimmed text after
\* the dash separator, or the empty text, as description.
C6_EveryTimestampLineButTheUrl ==
    pc = "input parsed" =>
        LET lines == TrimmedLines(text_block)
        IN  timestamps_data =
                RecordsOf(lines, TimestampLines(lines) \ TheUrlLine(lines))

C6_Witness ==
    /\ pc = "input parsed"
    /\ text_block = <<" ", "-", " ", "h", "i", "\n",
                      "1", ":", "3", "0", " ", "-", " ", "h", "i", "\n",
                      "1", ":", "3", "0">>
    /\ timestamps_data =
          << TimestampInfo(<<"1", ":", "3", "0">>, <<"h", "i">>),
             TimestampInfo(<<"1", ":", "3", "0">>, <<>>) >>

\* the block without the lines that are neither the URL nor a timestamp line
WithoutOtherLines(block) ==
    LET lines == TrimmedLines(block)
    IN  Join(LinesAt(lines, TimestampLines(lines) \cup TheUrlLine(lines)),
             <<"\n">>)

\* C7: the records appear in the order of their lines, none sorted, merged
\* or dropped as a duplicate; lines that are neither the URL nor a timestamp
\* line contribute nothing; the URL line, "1:30 - hello", "notaline", "2:00"
\* give the URL and the records ("1:30","hello"), ("2:00","").
C7_RecordsInLineOrder ==
    pc = "input parsed" =>
        LET lines == TrimmedLines(text_block)
            from == TimestampLines(lines) \ TheUrlLine(lines)
        IN  /\ Len(timestamps_data) = Cardinality(from)
            /\ \A k \in 1..Len(timestamps_data) :
                  timestamps_data[k].timestamp
                      = LeadingTimestamp(lines[IdxAt(from, k)])
            /\ ParseInput(WithoutOtherLines(text_block))
                  = <<youtube_url, timestamps_data>>
            /\ text_block = ExampleBlock =>
                  /\ youtube_url =
                        << <<"h", "t", "t", "p", "s", ":", "/", "/", "x",
                             "/", "y">> >>
                  /\ timestamps_data =
                        << TimestampInfo(<<"1", ":", "3", "0">>,
                                         <<"h", "e", "l", "l", "o">>),
                           TimestampInfo(<<"2", ":", "0", "0">>, <<>>) >>

\* out of order and twice the same timestamp: three records, as typed
C7_Witness ==
    /\ pc = "input parsed"
    /\ timestamps_data =
          << TimestampInfo(<<"1", ":", "3", "0">>, <<>>),
             TimestampInfo(<<"1", ":", "0", "2">>, <<>>),
             TimestampInfo(<<"1", ":", "3", "0">>, <<>>) >>

\* C8 as stated: only the first URL is kept; a later line that holds a URL
\* neither replaces it nor becomes a record, whatever else it holds.
C8_LaterUrlLinesIgnored ==
    pc = "input parsed" =>
        LET lines == TrimmedLines(text_block)
            with == UrlLines(lines)
        IN  /\ youtube_url =
                  IF with = {} THEN <<>> ELSE <<FirstUrl(lines[SetMin(with)])>>
            /\ timestamps_data = RecordsOf(lines, TimestampLines(lines) \ with)

\* C8 as amended: only the first URL is kept; a later line that holds a URL
\* never replaces it, and becomes a record iff it starts with a timestamp.
C8_LaterUrlLinesKeepUrl ==
    pc = "input parsed" =>
        LET lines == TrimmedLines(text_block)
            with == UrlLines(lines)
            later == with \ TheUrlLine(lines)
            stamped == TimestampLines(lines)
        IN  /\ youtube_url =
                  IF with = {} THEN <<>> ELSE <<FirstUrl(lines[SetMin(with)])>>
            /\ \A i \in later :
                  StartsWithTimestamp(lines[i]) =>
                      LineRecord(lines[i]) \in Range(timestamps_data)
            /\ Len(timestamps_data) =
                  Cardinality(stamped \ with) + Cardinality(later \cap stamped)

C8_Witness ==
    /\ pc = "input parsed"
    /\ youtube_url = << <<"h", "t", "t", "p", "s", ":", "/", "/", "y">> >>
    /\ timestamps_data =
          << TimestampInfo(<<"1", ":", "3", "0">>,
                           <<"h", "t", "t", "p", ":", "/", "/", "z">>) >>

\* C9: a line that begins with a three-field timestamp H:MM:SS, optionally
\* followed by " - description", yields a record whose timestamp is the
\* three-field text and whose description is the text after the dash.
C9_ThreeFieldAnchor ==
    pc = "input parsed" =>
        LET lines == TrimmedLines(text_block)
        IN  \A i \in TimestampLines(lines) \ TheUrlLine(lines) :
                StartsWithThreeFields(lines[i]) =>
                    TimestampInfo(SubSeq(lines[i], 1, LeadDigits(lines[i]) + 6),
                                  DescriptionAfter(lines[i],
                                                   LeadDigits(lines[i]) + 7))
                        \in Range(timestamps_data)

(***************************************************************************)
(* Properties of get_transcript_segment.                                   *)
(***************************************************************************)
\* the seconds an anchor text M:SS or H:MM:SS stands for
ClockSeconds(t) ==
    LET f == Split(t, ":")
    IN  IF Len(f) = 3
        THEN NumberOf(f[1]) * 3600 + NumberOf(f[2]) * 60 + NumberOf(f[3])
        ELSE NumberOf(f[1]) * 60 + NumberOf(f[2])

\* the seconds of the record at position i, counted from 0
AnchorSeconds(i) == ClockSeconds(all_timestamps[i + 1].timestamp)

IsLastAnchor == current_timestamp_index = Len(all_timestamps) - 1

\* C10: the window of anchor i is start = max(0, target - before) and
\* end = target + after, with after = maxAfter when i is the last index and
\* after = min(next - target, maxAfter) otherwise; records 1:00, 2:00 with
\* i = 0, maxAfter = 120, before = 30 give start = 30, end = 120.
C10_Window ==
    (pc = "segment returned" /\ segment.exc = "none") =>
        LET target == AnchorSeconds(current_timestamp_index)
            after == end_time - target
        IN  /\ start_time >= 0
            /\ start_time >= target - context_before_sec
            /\ start_time \in {0, target - context_before_sec}
            /\ IsLastAnchor => after = manual_context_limit_sec
            /\ ~IsLastAnchor =>
                  LET gap == AnchorSeconds(current_timestamp_index + 1) - target
                  IN  /\ after <= gap
                      /\ after <= manual_context_limit_sec
                      /\ after \in {gap, manual_context_limit_sec}
            /\ ( /\ all_timestamps =
                       << TimestampInfo(<<"1", ":", "0", "0">>, <<>>),
                          TimestampInfo(<<"2", ":", "0", "0">>, <<>>) >>
                  /\ current_timestamp_index = 0
                  /\ manual_context_limit_sec = 120
                  /\ context_before_sec = 30 )
                => (start_time = 30 /\ end_time = 120)

C10_Witness ==
    /\ pc = "segment returned"
    /\ all_timestamps = << TimestampInfo(<<"1", ":", "0", "0">>, <<>>),
                           TimestampInfo(<<"2", ":", "0", "0">>, <<>>) >>
    /\ current_timestamp_index = 0
    /\ manual_context_limit_sec = 120
    /\ context_before_sec = 30
    /\ start_time = 30
    /\ end_time = 120

\* C11: when the next anchor is not later than the current one, the
\* seconds-after value is clamped to zero, so for every record list and
\* index the window end is never earlier than the anchor's own time.
C11_EndNotBeforeAnchor ==
    (pc = "segment returned" /\ segment.exc = "none") =>
        /\ end_time >= AnchorSeconds(current_timestamp_index)
        /\ ( /\ ~IsLastAnchor
              /\ AnchorSeconds(current_timestamp_index + 1)
                     <= AnchorSeconds(current_timestamp_index) )
            => end_time = AnchorSeconds(current_timestamp_index)

\* C12: for every record list, anchor index, maxAfter >= 0 and before >= 0
\* the computed window has start >= 0 and end >= start, and the computation
\* never fails.
C12_WindowWellFormed ==
    ( /\ pc = "segment returned"
      /\ manual_context_limit_sec >= 0
      /\ context_before_sec >= 0 ) =>
        /\ segment.exc = "none"
        /\ start_time >= 0
        /\ end_time >= start_time

\* the timestamp text of the bracketed marker a line starts with, as a
\* sequence of at most one text
LeadingMarker(line) ==
    LET ks == {k \in 2..Len(line) :
                  /\ line[1] = "["
                  /\ line[k] = "]"
                  /\ IsTimestampText(SubSeq(line, 2, k - 1))}
    IN  IF ks = {} THEN <<>> ELSE <<SubSeq(line, 2, SetMin(ks) - 1)>>

\* the indices of the lines whose leading marker lies in [from, to]
MarkedWithin(lines, from, to) ==
    {i \in 1..Len(lines) :
        /\ LeadingMarker(lines[i]) # <<>>
        /\ from <= ClockSeconds(LeadingMarker(lines[i])[1])
        /\ ClockSeconds(LeadingMarker(lines[i])[1]) <= to}

\* C13: the segment is exactly the subsequence of transcript lines, in
\* their order and without deduplication or merging, that start with a
\* bracketed marker whose seconds v satisfy start <= v <= end; lines without
\* a leading marker are never included; "[0:10] a", "[0:50] b", "[2:00] c"
\* with the window 0..60 give "[0:10] a", "[0:50] b".
C13_SegmentIsWindowLines ==
    (pc = "segment returned" /\ segment.exc = "none") =>
        LET lines == Split(raw_transcript, "\n")
        IN  /\ segment.value =
                  Join(LinesAt(lines,
                               MarkedWithin(lines, start_time, end_time)),
                       <<"\n">>)
            /\ ( /\ raw_transcript = ExampleTranscript
                  /\ start_time = 0
                  /\ end_time = 60 )
                => segment.value =
                      SubSeq(ExampleTranscript, 1, 17)

C13_Witness ==
    /\ pc = "segment returned"
    /\ raw_transcript = ExampleTranscript
    /\ start_time = 0
    /\ end_time = 60
    /\ segment =
          Returned(<<"[", "0", ":", "1", "0", "]", " ", "a", "\n",
                     "[", "0", ":", "5", "0", "]", " ", "b">>)

(***************************************************************************)
(* Properties of process_timestamps.                                       *)
(***************************************************************************)
LastLogged == iteration_log[Len(iteration_log)]

\* the loop has visited the records 0, 1, 2, ... once each, in order
VisitedOnceInOrder ==
    \A k \in 1..Len(iteration_log) : iteration_log[k].index = k - 1

\* the last iteration called get_transcript_segment, so that the segment
\* variables show its call
LastIterationExtracted ==
    /\ iteration_log # <<>>
    /\ LastLogged.event # "beyond end"

\* C14: when no transcript line falls in an anchor's window, segment
\* extraction returns an empty result without raising, and
\* process_timestamps skips that anchor: the collaborator is never called
\* with an empty segment and the anchor is not retried.
C14_EmptySegmentSkipped ==
    pc \in {"processing", "quotes returned"} =>
        /\ \A r \in 1..Len(quote_requests) :
              quote_requests[r].segment # <<>>
        /\ VisitedOnceInOrder
        /\ ( /\ LastIterationExtracted
              /\ segment.exc = "none"
              /\ MarkedWithin(Split(raw_transcript, "\n"),
                              start_time, end_time) = {} )
            => /\ segment = Returned(<<>>)
               /\ LastLogged =
                     [index |-> current_timestamp_index,
                      event |-> "empty segment"]
               /\ \A r \in 1..Len(quote_requests) :
                     quote_requests[r].index # current_timestamp_index
               /\ ts_index = current_timestamp_index + 1

\* an anchor inside the transcript whose proper window holds no line
C14_Witness ==
    /\ pc = "quotes returned"
    /\ LastIterationExtracted
    /\ LastLogged.event = "empty segment"
    /\ start_time <= end_time
    /\ segment = Returned(<<>>)
    /\ quote_requests = <<>>

\* the requests the collaborator answered with a quote
Answered(r) == r.outcome.exc = "none"

ClosingAfter(text, p) ==
    LET ks == {k \in (p + 1)..Len(text) : text[k] = "]"}
    IN  IF ks = {} THEN 0 ELSE SetMin(ks)

\* the positions where a bracketed timestamp marker starts
MarkerStarts(text) ==
    {p \in 1..Len(text) :
        /\ text[p] = "["
        /\ ClosingAfter(text, p) # 0
        /\ IsTimestampText(SubSeq(text, p + 1, ClosingAfter(text, p) - 1))}

\* the j-th of the markers that start at the positions starts of a text,
\* brackets included, and its timestamp text
MarkerNo(text, starts, j) ==
    SubSeq(text, IdxAt(starts, j), ClosingAfter(text, IdxAt(starts, j)))

MarkerTextNo(text, starts, j) ==
    SubSeq(text, IdxAt(starts, j) + 1, ClosingAfter(text, IdxAt(starts, j)) - 1)

\* the text before the first marker (j = 0), between the j-th marker and
\* the next, or after the last one
GapNo(text, starts, j) ==
    SubSeq(text,
           IF j = 0 THEN 1 ELSE ClosingAfter(text, IdxAt(starts, j)) + 1,
           IF j = Cardinality(starts) THEN Len(text)
           ELSE IdxAt(starts, j + 1) - 1)

\* mk is the marker of the second count v: the hour form with the hour
\* field exactly when v is an hour or more, fields padded to 2 digits
IsRendering(mk, v) ==
    /\ Bracketed(mk)
    /\ IF HourOf(v) > 0
       THEN /\ Len(MarkerFields(mk)) = 3
            /\ PaddedTo2(MarkerFields(mk)[1], HourOf(v))
            /\ TwoDigits(MarkerFields(mk)[2], MinuteOf(v))
            /\ TwoDigits(MarkerFields(mk)[3], SecondOf(v))
       ELSE /\ Len(MarkerFields(mk)) = 2
            /\ TwoDigits(MarkerFields(mk)[1], MinuteOf(v))
            /\ TwoDigits(MarkerFields(mk)[2], SecondOf(v))

\* text b is text a with every marker moved by off seconds and nothing
\* else changed
Rewritten(a, b, off) ==
    \E sa \in {MarkerStarts(a)} : \E sb \in {MarkerStarts(b)} :
        /\ Cardinality(sb) = Cardinality(sa)
        /\ \A j \in 0..Cardinality(sa) : GapNo(b, sb, j) = GapNo(a, sa, j)
        /\ \A j \in 1..Cardinality(sa) :
              \E mk \in {MarkerNo(b, sb, j)} :
                  IsRendering(mk, ClockSeconds(MarkerTextNo(a, sa, j)) + off)

\* "[01:05:00] c\n[02:00:00] d"
FiveMinutesAfterAnHour ==
    <<"[", "0", "1", ":", "0", "5", ":", "0", "0", "]", " ", "c", "\n", "[",
      "0", "2", ":", "0", "0", ":", "0", "0", "]", " ", "d">>

\* C15: adjust_transcript_timestamps replaces every bracketed marker [T] of
\* a chunk transcript by the rendering of (seconds of T) + offset, the hour
\* or no-hour form chosen from the rewritten value and not from the original
\* marker's form; a chunk-local [05:00] with offset 3600 becomes the
\* hour-form marker of 1:05:00.
C15_EveryMarkerRewritten ==
    pc \in {"transcribing", "stitched"} =>
        \A k \in 1..Len(transcripts) :
            /\ Rewritten(chunk_transcripts[k], transcripts[k],
                         chunks[k].start_sec)
            /\ ( /\ chunk_transcripts[k] = ChunkTextFiveMinutes
                  /\ chunks[k].start_sec = 3600 )
                => transcripts[k] = FiveMinutesAfterAnHour

C15_Witness ==
    /\ pc = "stitched"
    /\ Len(chunks) = 2
    /\ chunks[2].start_sec = 3600
    /\ chunk_transcripts[2] = ChunkTextFiveMinutes
    /\ transcripts[2] = FiveMinutesAfterAnHour

\* the lines of the k-th rewritten chunk
ChunkLines(k) == Split(transcripts[k], "\n")

\* the lines kept from the k-th chunk: all of the first chunk's, and of a
\* later chunk those not identical to a line kept from an earlier chunk
RECURSIVE KeptLines(_)
KeptLines(k) ==
    IF k = 1 THEN ChunkLines(1)
    ELSE LET earlier == UNION {Range(KeptLines(j)) : j \in 1..(k - 1)}
             Fresh(l) == l \notin earlier
         IN  SelectSeq(ChunkLines(k), Fresh)

\* the kept lines of the chunks k..n, in chunk order
RECURSIVE KeptFrom(_, _)
KeptFrom(k, n) ==
    IF k > n THEN <<>> ELSE KeptLines(k) \o KeptFrom(k + 1, n)

\* C16: stitching processes the rewritten chunks in input order: every line
\* of the first chunk is kept, a line of a later chunk is kept iff it is not
\* textually identical to a line kept from an earlier chunk, and the
\* surviving lines are concatenated in chunk order, one per line.
C16_StitchKeepsUnseenLines ==
    pc = "stitched" =>
        /\ stitched = KeptFrom(1, Len(transcripts))
        /\ chunked_result = Returned(Join(stitched, <<"\n">>))

\* the second chunk repeats the first chunk's line of 0:30 and adds one
C16_Witness ==
    /\ pc = "stitched"
    /\ chunk_transcripts = <<ChunkTextXY, ChunkTextOverlapYZ>>
    /\ chunks = <<[start_sec |-> 0], [start_sec |-> 30]>>
    /\ stitched = << <<"[", "0", "0", ":", "0", "0", "]", " ", "x">>,
                     <<"[", "0", "0", ":", "3", "0", "]", " ", "y">>,
                     <<"[", "0", "0", ":", "4", "0", "]", " ", "z">> >>

\* the line starts with a marker of v seconds, followed by a space and txt
LineSays(line, v, txt) ==
    /\ LeadingMarker(line) # <<>>
    /\ ClockSeconds(LeadingMarker(line)[1]) = v
    /\ SubSeq(line, Len(LeadingMarker(line)[1]) + 3, Len(line))
          = <<" ">> \o txt

\* the chunks ("[0:00] x\n[0:30] y", 0) and ("[0:20] y\n[0:40] z", 30) are
\* stitched
ExampleChunksStitched ==
    /\ pc = "stitched"
    /\ chunks = <<[start_sec |-> 0], [start_sec |-> 30]>>
    /\ chunk_transcripts = <<ChunkTextXY, ChunkTextYZ>>

\* the second chunk's lines are rewritten to the times 0:50 and 1:10
SecondChunkRewritten ==
    /\ Len(ChunkLines(2)) = 2
    /\ LineSays(ChunkLines(2)[1], 50, <<"y">>)
    /\ LineSays(ChunkLines(2)[2], 70, <<"z">>)

\* C17 as stated: the second chunk's lines are rewritten to 0:50 and 1:10,
\* its y line is dropped as a duplicate of the first chunk's y line, and
\* exactly three lines come out: x at 0:00, y at 0:30, z at 1:10.
C17_ExampleThreeLines ==
    ExampleChunksStitched =>
        /\ SecondChunkRewritten
        /\ Len(stitched) = 3
        /\ LineSays(stitched[1], 0, <<"x">>)
        /\ LineSays(stitched[2], 30, <<"y">>)
        /\ LineSays(stitched[3], 70, <<"z">>)

\* C17 as amended: the second chunk's lines are rewritten to 0:50 and 1:10;
\* its y line of 0:50 is not identical to the first chunk's y line of 0:30
\* and is kept, so exactly four lines come out: x at 0:00, y at 0:30,
\* y at 0:50, z at 1:10.
C17_ExampleFourLines ==
    ExampleChunksStitched =>
        /\ SecondChunkRewritten
        /\ Len(stitched) = 4
        /\ LineSays(stitched[1], 0, <<"x">>)
        /\ LineSays(stitched[2], 30, <<"y">>)
        /\ LineSays(stitched[3], 50, <<"y">>)
        /\ LineSays(stitched[4], 70, <<"z">>)

C17_Witness ==
    /\ ExampleChunksStitched
    /\ stitched = << <<"[", "0", "0", ":", "0", "0", "]", " ", "x">>,
                     <<"[", "0", "0", ":", "3", "0", "]", " ", "y">>,
                     <<"[", "0", "0", ":", "5", "0", "]", " ", "y">>,
                     <<"[", "0", "1", ":", "1", "0", "]", " ", "z">> >>

\* the seconds of the marker-bearing lines of the stitched transcript, in
\* line order
StitchedSeconds ==
    LET marked == {i \in 1..Len(stitched) : LeadingMarker(stitched[i]) # <<>>}
    IN  [k \in 1..Cardinality(marked) |->
            ClockSeconds(LeadingMarker(stitched[IdxAt(marked, k)])[1])]

NonDecreasing(q) == \A j \in 1..(Len(q) - 1) : q[j] <= q[j + 1]

\* the seconds of the marker-bearing lines of a chunk transcript
ChunkSeconds(text) ==
    LET lines == Split(text, "\n")
        marked == {i \in 1..Len(lines) : LeadingMarker(lines[i]) # <<>>}
    IN  [k \in 1..Cardinality(marked) |->
            ClockSeconds(LeadingMarker(lines[IdxAt(marked, k)])[1])]

\* C18: whenever every chunk transcript is internally chronological and the
\* chunk offsets are non-decreasing, the timestamps of the marker-bearing
\* lines of the stitched transcript are non-decreasing from the first line
\* to the last, also across chunk boundaries.
C18_StitchedChronological ==
    ( /\ pc = "stitched"
      /\ \A k \in 1..Len(chunk_transcripts) :
            NonDecreasing(ChunkSeconds(chunk_transcripts[k]))
      /\ \A k \in 1..(Len(chunks) - 1) :
            chunks[k].start_sec <= chunks[k + 1].start_sec )
    => NonDecreasing(StitchedSeconds)

\* an attempt in which an earlier chunk was transcribed and a later one
\* failed has ended
LaterChunkFailed ==
    /\ pc = "transcription failed"
    /\ chunk_transcripts # <<>>

\* C20: a transcription failure for one chunk does not abort the remaining
\* chunks: the other chunks are still transcribed and a partial stitched
\* transcript is returned instead of failing the whole transcription.
C20_PartialTranscriptReturned ==
    /\ pc = "transcription failed" => chunked_result.exc = "none"
    /\ LaterChunkFailed =>
          /\ chunked_result.exc = "none"
          /\ \A j \in 1..Len(chunk_transcripts) :
                \A i \in 1..Len(ChunkLines(j)) :
                    ChunkLines(j)[i] \in Range(stitched)

(***************************************************************************)
(* Properties of validate_input.                                           *)
(***************************************************************************)
\* the records of the batch with a well-formed timestamp
WellFormedRecords ==
    {i \in 1..Len(timestamps_to_process) :
        IsTimestampText(timestamps_to_process[i].timestamp)}

\* C21: a malformed timestamp in a batch of records causes only that
\* timestamp to be skipped: the other records are still validated, windowed
\* and sent to quote extraction, and the batch as a whole is not rejected.
C21_MalformedOnlySkipped ==
    ( /\ pc = "input validated"
      /\ youtube_url # <<>>
      /\ WellFormedRecords # {} )
    => valid

(***************************************************************************)
(* Properties of the end-of-transcript check of process_timestamps.        *)
(***************************************************************************)
\* the seconds of the last line of the transcript that starts with a marker,
\* 0 when no line does
LastKnownTimestamp(transcript) ==
    LET lines == Split(transcript, "\n")
        marked == {i \in 1..Len(lines) : LeadingMarker(lines[i]) # <<>>}
    IN  IF marked = {} THEN 0
        ELSE ClockSeconds(LeadingMarker(lines[SetMax(marked)])[1])

\* the record at position i (from 0) lies after the last known timestamp
BeyondEnd(i) ==
    ClockSeconds(timestamps_to_process[i + 1].timestamp)
        > LastKnownTimestamp(full_transcript)

\* C22: process_timestamps skips an anchor (no segment extraction, no quote
\* request) if and only if the anchor's seconds are strictly greater than
\* the transcript's last known timestamp; an anchor equal to or earlier than
\* it is processed.
C22_SkippedIffBeyondEnd ==
    pc \in {"processing", "quotes returned"} =>
        /\ \A k \in 1..Len(iteration_log) :
              iteration_log[k].event = "beyond end"
                  <=> BeyondEnd(iteration_log[k].index)
        /\ \A r \in 1..Len(quote_requests) :
              ~BeyondEnd(quote_requests[r].index)
        /\ (\A k \in 1..Len(iteration_log) : BeyondEnd(iteration_log[k].index))
              => raw_transcript = <<>>
        /\ (iteration_log # <<>> /\ ~BeyondEnd(LastLogged.index))
              => /\ raw_transcript = full_transcript
                 /\ current_timestamp_index = LastLogged.index

\* an anchor at exactly the last known timestamp was processed and quoted,
\* and a later anchor of the same batch was skipped
C22_Witness ==
    /\ pc = "quotes returned"
    /\ Len(iteration_log) = 2
    /\ ClockSeconds(timestamps_to_process[1].timestamp)
          = LastKnownTimestamp(full_transcript)
    /\ iteration_log[1].event = "quoted"
    /\ iteration_log[2].event = "beyond end"
    /\ Len(quote_requests) = 1

(***************************************************************************)
(* Properties of find_transcript_max_timestamp.                            *)
(***************************************************************************)
\* the greatest seconds value over the lines that start with a marker, 0
\* when no line does
MaxMarkerSeconds(transcript) ==
    LET lines == Split(transcript, "\n")
        marked == {i \in 1..Len(lines) : LeadingMarker(lines[i]) # <<>>}
    IN  IF marked = {} THEN 0
        ELSE SetMax({ClockSeconds(LeadingMarker(lines[i])[1]) : i \in marked})

\* C24: find_transcript_max_timestamp returns the maximum seconds value over
\* all marker-bearing lines of the transcript (0 when no line carries a
\* marker), for every transcript including ones whose lines are not in
\* chronological order.
C24_ReturnsMaximum ==
    pc \in {"processing", "quotes returned"} =>
        last_ts_seconds = MaxMarkerSeconds(full_transcript)

(***************************************************************************)
(* parse_input followed by validate_timestamps_format.                     *)
(***************************************************************************)
\* C25: every record returned by parse_input, for any input text, has a
\* timestamp accepted by validate_timestamps_format, so validation applied
\* directly to a parsed batch never rejects it.
C25_ParsedBatchValidates ==
    pc = "input parsed" =>
        /\ ValidateTimestampsFormat(timestamps_data)
        /\ \A i \in 1..Len(timestamps_data) :
              ValidateTimestampsFormat(<<timestamps_data[i]>>)

\* a parsed batch of several records, one from a line with a description and
\* one from a line with a third field, passes validation
C25_Witness ==
    /\ pc = "input parsed"
    /\ Len(timestamps_data) >= 2
    /\ \E i \in 1..Len(timestamps_data) : timestamps_data[i].description # <<>>
    /\ \E i \in 1..Len(TrimmedLines(text_block)) :
          StartsWithThreeFields(TrimmedLines(text_block)[i])
    /\ ValidateTimestampsFormat(timestamps_data)

(***************************************************************************)
(* Properties of the retries of transcription.                             *)
(***************************************************************************)
\* no chunk has been requested more often than the retry limit
WithinRetryLimit ==
    \A k \in 1..Len(requests_sent) : requests_sent[k] <= RetryAttempts

\* within one call the chunk loop does not go back to a chunk that was
\* transcribed already
NoChunkTranscribedAgain ==
    (pc = "transcribing" /\ pc' = "transcribing") => chunk_idx' >= chunk_idx

\* C27: with retry_attempts = 3, one call of transcribe_audio_with_chunking
\* sends at most 3 transcription requests to the API for any single chunk,
\* whatever sequence of request failures occurs, and a chunk that was
\* transcribed successfully is not requested again because a later chunk
\* failed.
C27_AtMostThreeRequests ==
    []WithinRetryLimit /\ [][NoChunkTranscribedAgain]_vars

(***************************************************************************)
(* Properties of the cached transcript file.                               *)
(***************************************************************************)
\* the transcript file, when it exists, holds the stitched transcript of all
\* the chunks; while chunks are transcribed and after a failure it does not
\* exist
OnlyCompleteTranscriptCached ==
    /\ pc \in {"transcribing", "transcription failed"} => transcript_file = <<>>
    /\ transcript_file # <<>> =>
          /\ Len(transcripts) = Len(chunks)
          /\ transcript_file[1] = Join(stitched, <<"\n">>)
          /\ stitched = StitchFrom(transcripts, 1, <<>>, {}).stitched
    /\ pc = "transcript read" => full_transcript = Join(stitched, <<"\n">>)

\* after a failed transcription the next get_or_create_transcript starts the
\* transcription again, from the first chunk
FailedTranscriptionStartsAgain ==
    (pc = "transcription failed" /\ pc' # pc) =>
        /\ pc' = "transcribing"
        /\ attempt' = 1
        /\ chunk_idx' = 0
        /\ transcripts' = <<>>

\* C28: the cached full-transcript file is written only with a complete
\* transcript: if chunked transcription fails at any chunk, the file named
\* transcript_filename is not created or changed, so the next
\* get_or_create_transcript for the same title finds no cached transcript
\* and transcribes again instead of reusing a partial one.
C28_OnlyCompleteTranscriptCached ==
    []OnlyCompleteTranscriptCached /\ [][FailedTranscriptionStartsAgain]_vars

\* a transcription that failed after its first chunk had been transcribed
\* has been started again: the chunk's file is there, no transcript file is
C28_Witness ==
    /\ pc = "transcribing"
    /\ attempt = 1
    /\ chunk_idx = 0
    /\ 1 \in chunk_files
    /\ \A k \in 1..Len(requests_sent) : requests_sent[k] = 0
    /\ transcript_file = <<>>

(***************************************************************************)
(* Properties of stitching: which lines are dropped.                       *)
(***************************************************************************)
\* how often the line l occurs in the sequence of lines ls
Count(ls, l) == Cardinality({i \in 1..Len(ls) : ls[i] = l})

\* the lines of all the rewritten chunks
AllChunkLines == UNION {Range(ChunkLines(k)) : k \in 1..Len(transcripts)}

\* the first chunk that holds the line l
FirstChunkWith(l) ==
    SetMin({k \in 1..Len(transcripts) : l \in Range(ChunkLines(k))})

\* the line holds no bracketed timestamp marker
Unmarked(l) == MarkerStarts(l) = {}

RECURSIVE CountInChunks(_, _)
CountInChunks(k, l) ==
    IF k = 0 THEN 0 ELSE Count(ChunkLines(k), l) + CountInChunks(k - 1, l)

\* C29: stitching removes only timestamped overlap lines: a line that
\* carries no bracketed timestamp marker (a blank separator line or a
\* continuation line) is never dropped from any chunk, and two identical
\* lines inside the same chunk are both kept.
C29_UnmarkedLinesNeverDropped ==
    pc = "stitched" =>
        \A l \in AllChunkLines :
            /\ Unmarked(l) =>
                  Count(stitched, l) = CountInChunks(Len(transcripts), l)
            /\ Count(stitched, l) >= Count(ChunkLines(FirstChunkWith(l)), l)

\* C29 as the code has it: a line of a later chunk, with or without a
\* marker, is dropped when it is identical to a line of an earlier chunk,
\* and the lines of one chunk are not compared with each other: the
\* stitched text holds each line as often as the first chunk that has it.
C29_LinesOfFirstHolderKept ==
    pc = "stitched" =>
        /\ \A l \in AllChunkLines :
              Count(stitched, l) = Count(ChunkLines(FirstChunkWith(l)), l)
        /\ Range(stitched) = AllChunkLines

\* two chunks with the same blank line and the same repeated continuation
\* line: the first chunk keeps both repetitions, the second loses them
C29_Witness ==
    /\ pc = "stitched"
    /\ chunk_transcripts = <<ChunkTextContinued, ChunkTextContinued>>
    /\ chunks = <<[start_sec |-> 0], [start_sec |-> 30]>>
    /\ stitched = << <<"[", "0", "0", ":", "0", "0", "]", " ", "x">>,
                     <<>>, <<"w">>, <<"w">>,
                     <<"[", "0", "0", ":", "3", "0", "]", " ", "x">> >>

(***************************************************************************)
(* Properties of split_audio_chunks.                                       *)
(***************************************************************************)
OverlapShorterThanChunk == overlap_ms < chunk_length_ms

\* C23: with a chunk overlap smaller than the chunk length, for every audio
\* duration the offsets that split_audio_chunks returns, and that the stitch
\* loop applies in list order, begin at 0, are all non-negative and are
\* non-decreasing from one chunk to the next.
C23_OffsetsOrdered ==
    (pc \in {"splitting", "chunks returned"} /\ OverlapShorterThanChunk) =>
        /\ chunks # <<>> => chunks[1].start_sec = 0
        /\ \A j \in 1..Len(chunks) : chunks[j].start_sec >= 0
        /\ \A j \in 1..(Len(chunks) - 1) :
              chunks[j].start_sec <= chunks[j + 1].start_sec

\* an audio of two and a half minutes cut into chunks of one minute that
\* overlap by 30 s: the offsets 0, 30, 60, 90
C23_Witness ==
    /\ pc = "chunks returned"
    /\ duration_ms = 150000
    /\ chunk_length_ms = 60000
    /\ overlap_ms = 30000
    /\ chunks = <<[start_sec |-> 0], [start_sec |-> 30], [start_sec |-> 60],
                  [start_sec |-> 90]>>

\* what holds of the slices cut so far: each starts after the one before it
\* and not after its end, the first starts at 0, none is empty; and of the
\* returned ones: the last ends at the end of the audio, and an audio of
\* length 0 gives no chunk
SlicesCoverAudio ==
    (pc \in {"splitting", "chunks returned"} /\ OverlapShorterThanChunk) =>
        /\ chunk_ranges # <<>> => chunk_ranges[1].from = 0
        /\ \A j \in 1..Len(chunk_ranges) :
              chunk_ranges[j].from < chunk_ranges[j].to
        /\ \A j \in 1..(Len(chunk_ranges) - 1) :
              /\ chunk_ranges[j].from < chunk_ranges[j + 1].from
              /\ chunk_ranges[j + 1].from <= chunk_ranges[j].to
        /\ pc = "chunks returned" =>
              IF duration_ms = 0 THEN chunk_ranges = <<>>
              ELSE /\ chunk_ranges # <<>>
                   /\ chunk_ranges[Len(chunk_ranges)].to = duration_ms

\* an iteration that does not return moves the chunk start forward
StartAdvances ==
    (pc = "splitting" /\ pc' = "splitting" /\ OverlapShorterThanChunk) =>
        start_ms' > start_ms

\* C26: split_audio_chunks terminates for every audio duration >= 0 whenever
\* 0 <= overlap < chunk length: each iteration strictly advances the chunk
\* start, the last chunk ends exactly at the audio duration, and consecutive
\* chunks together cover the whole audio with no gap.
C26_SplitTerminates ==
    /\ []SlicesCoverAudio
    /\ [][StartAdvances]_vars
    /\ (pc = "splitting" /\ OverlapShorterThanChunk) ~> (pc = "chunks returned")

\* an audio of 90.5 s cut into chunks of one minute that overlap by 45 s:
\* the slices 0-60, 15-75 and 30-90.5 s
C26_Witness ==
    /\ pc = "chunks returned"
    /\ duration_ms = 90500
    /\ overlap_ms = 45000
    /\ chunk_ranges = <<[from |-> 0, to |-> 60000],
                        [from |-> 15000, to |-> 75000],
                        [from |-> 30000, to |-> 90000],
                        [from |-> 45000, to |-> 90500]>>

(***************************************************************************)
(* Properties of the desktop GUI.                                          *)
(***************************************************************************)
\* the worker threads that are still executing
RunningThreads == {i \in 1..Len(threads) : threads[i].state = "running"}

AtMostOneRunning == Cardinality(RunningThreads) <= 1

\* a worker is started only when none is executing
StartsOnlyWhenIdle == Len(threads') > Len(threads) => RunningThreads = {}

\* C30: in the desktop GUI at most one background processing thread is
\* running at any time: under every interleaving of Start clicks, Stop
\* clicks and worker completion, start_processing launches a new worker only
\* when no earlier worker is still executing.
C30_AtMostOneWorker ==
    []AtMostOneRunning /\ [][StartsOnlyWhenIdle]_vars

====
